---- MODULE Spec2Model ----
(***************************************************************************)
(* A model of the conv2 numeric conversion rules (src/src/impls.rs,        *)
(* src/src/limits.rs, src/src/errors.rs, src/src/lib.rs).                  *)
(*                                                                         *)
(* Numbers are exact.  A magnitude is the set of the exponents of the      *)
(* powers of two that sum to it: 5 is {0, 2}, 0.75 is {-1, -2}, 2^63 is    *)
(* {63}.  A value is a record [cls, neg, mag]: cls is "fin" for a finite   *)
(* number, "inf" for an infinity and "nan" for not-a-number.  Integers of  *)
(* every width and floats of both formats share this shape, so 64-bit      *)
(* values keep their full width.                                           *)
(***************************************************************************)
EXTENDS Integers, Sequences, FiniteSets, TLC

VARIABLES ptr_width, src_ty, dst_ty, input, pc, op, scheme, conv, res, sat,
          wide, out, limits

vars == <<ptr_width, src_ty, dst_ty, input, pc, op, scheme, conv, res, sat,
          wide, out, limits>>

(***************************************************************************)
(* Bounds of the explored inputs.                                          *)
(***************************************************************************)
\* Integer inputs lie within Near of an anchor (a type bound or a literal).
Near == 1
\* Float inputs carry fractions that are multiples of 2^-FracBits.
FracBits == 2

(***************************************************************************)
(* Magnitude arithmetic.                                                   *)
(***************************************************************************)
MaxOf(S) == CHOOSE k \in S : \A j \in S : j <= k

Shl(S, n) == {k + n : k \in S}

Xor(A, B) == (A \ B) \cup (B \ A)

MinOf(S) == CHOOSE k \in S : \A j \in S : k <= j

Span(S) == IF S = {} THEN {} ELSE MinOf(S)..(MaxOf(S) + 1)

\* a carry enters position k when a lower position generates one (both
\* bits set) and every position between passes it on (either bit set)
Carry(A, B, k) ==
    \E j \in A \cap B : j < k /\ \A i \in (j + 1)..(k - 1) : i \in A \cup B

MagAdd(A, B) ==
    {k \in Span(A \cup B) : ((k \in A) # (k \in B)) # Carry(A, B, k)}

\* a borrow enters position k when a lower position generates one (bit of
\* B without bit of A) and no position between absorbs it
Borrow(A, B, k) ==
    \E j \in B \ A : j < k /\ \A i \in (j + 1)..(k - 1) : i \notin A \ B

\* A - B for A >= B
MagSub(A, B) ==
    {k \in Span(A \cup B) : ((k \in A) # (k \in B)) # Borrow(A, B, k)}

\* A < B: the highest position where they differ is set in B
MagLt(A, B) == \E k \in B \ A : \A j \in A \ B : j < k

\* the binary digits of a small natural number
NatBits(n) == {k \in 0..30 : (n \div (2^k)) % 2 = 1}

(***************************************************************************)
(* Values.                                                                 *)
(***************************************************************************)
Fin(n, m) == [cls |-> "fin", neg |-> n, mag |-> m]

Zero == Fin(FALSE, {})
NegZero == Fin(TRUE, {})
NaN == [cls |-> "nan", neg |-> FALSE, mag |-> {}]
PosInf == [cls |-> "inf", neg |-> FALSE, mag |-> {}]
NegInf == [cls |-> "inf", neg |-> TRUE, mag |-> {}]
NoPayload == [cls |-> "none", neg |-> FALSE, mag |-> {}]

Pos(m) == Fin(FALSE, m)
\* an integer never carries a negative zero
Neg(m) == Fin(m # {}, m)

\* the numeric order of the values; every comparison with a NaN is false
Lt(a, b) ==
    CASE a.cls = "nan" \/ b.cls = "nan" -> FALSE
      [] a.cls = "inf" /\ a.neg -> ~(b.cls = "inf" /\ b.neg)
      [] a.cls = "inf" -> FALSE
      [] b.cls = "inf" -> ~b.neg
      [] a.neg /\ ~b.neg -> ~(a.mag = {} /\ b.mag = {})
      [] ~a.neg /\ b.neg -> FALSE
      [] a.neg /\ b.neg -> MagLt(b.mag, a.mag)
      [] OTHER -> MagLt(a.mag, b.mag)

Gt(a, b) == Lt(b, a)

NumEq(a, b) ==
    /\ a.cls # "nan" /\ b.cls # "nan"
    /\ ~Lt(a, b) /\ ~Lt(b, a)

Le(a, b) == Lt(a, b) \/ NumEq(a, b)

Ge(a, b) == Le(b, a)

\* the exact sum of two finite values
ExactAdd(a, b) ==
    CASE a.neg = b.neg -> Fin(a.neg, MagAdd(a.mag, b.mag))
      [] MagLt(a.mag, b.mag) -> Fin(b.neg, MagSub(b.mag, a.mag))
      [] a.mag = b.mag -> Zero
      [] OTHER -> Fin(a.neg, MagSub(a.mag, b.mag))

Negate(a) == [a EXCEPT !.neg = ~a.neg]

ExactSub(a, b) == ExactAdd(a, Negate(b))

One == Pos({0})

(***************************************************************************)
(* The primitive types.  isize and usize take the width of the build's     *)
(* target_pointer_width.                                                   *)
(***************************************************************************)
SignedTypes == {"i8", "i16", "i32", "i64", "isize"}
UnsignedTypes == {"u8", "u16", "u32", "u64", "usize"}
IntTypes == SignedTypes \cup UnsignedTypes
FloatTypes == {"f32", "f64"}
Types == IntTypes \cup FloatTypes
PointerWidths == {32, 64}

BITS(t, pw) ==
    CASE t \in {"i8", "u8"} -> 8
      [] t \in {"i16", "u16"} -> 16
      [] t \in {"i32", "u32"} -> 32
      [] t \in {"i64", "u64"} -> 64
      [] t \in {"isize", "usize"} -> pw

IntMIN(t, pw) ==
    IF t \in SignedTypes THEN Fin(TRUE, {BITS(t, pw) - 1}) ELSE Zero

IntMAX(t, pw) ==
    IF t \in SignedTypes THEN Pos(0..(BITS(t, pw) - 2))
    ELSE Pos(0..(BITS(t, pw) - 1))

InIntRange(v, t, pw) ==
    /\ v.cls = "fin"
    /\ Le(IntMIN(t, pw), v)
    /\ Le(v, IntMAX(t, pw))

\* significand precision, largest exponent and exponent of the smallest
\* subnormal of a float format
MANTISSA_DIGITS(f) == IF f = "f32" THEN 24 ELSE 53
MAX_EXP(f) == IF f = "f32" THEN 127 ELSE 1023
MIN_SUBNORMAL_EXP(f) == IF f = "f32" THEN -149 ELSE -1074

\* position of the last significand bit of a float with leading bit top
LsbOf(top, f) ==
    IF top - MANTISSA_DIGITS(f) + 1 < MIN_SUBNORMAL_EXP(f)
    THEN MIN_SUBNORMAL_EXP(f)
    ELSE top - MANTISSA_DIGITS(f) + 1

\* the float of format f nearest to the exact value (n, m), ties to even
RoundFloat(n, m, f) ==
    IF m = {} THEN Fin(n, {})
    ELSE LET lsb == LsbOf(MaxOf(m), f)
             kept == {k \in m : k >= lsb}
             up == /\ (lsb - 1) \in m
                   /\ (lsb \in m \/ \E k \in m : k < lsb - 1)
             r == IF up THEN MagAdd(kept, {lsb}) ELSE kept
         IN  IF r # {} /\ MaxOf(r) > MAX_EXP(f)
             THEN [cls |-> "inf", neg |-> n, mag |-> {}]
             ELSE Fin(n, r)

IsFloatOf(v, f) ==
    \/ v.cls \in {"nan", "inf"}
    \/ v.cls = "fin" /\ RoundFloat(v.neg, v.mag, f) = v

\* the low-order bits of an integer reinterpreted in the integer type d
WrapInt(x, d, pw) ==
    LET w == BITS(d, pw)
        low == {k \in x.mag : k < w}
        pat == IF x.neg /\ low # {} THEN MagSub({w}, low) ELSE low
    IN  IF d \in SignedTypes /\ (w - 1) \in pat
        THEN Fin(TRUE, MagSub({w}, pat))
        ELSE Pos(pat)

\* the cast `x as d` of a value x of type s
AsCast(x, s, d, pw) ==
    CASE s = d -> x
      [] d \in IntTypes /\ s \in IntTypes -> WrapInt(x, d, pw)
      [] d \in FloatTypes /\ x.cls = "fin" -> RoundFloat(x.neg, x.mag, d)
      [] OTHER -> x

is_nan(x) == x.cls = "nan"

is_finite(x) == x.cls = "fin"

IntPart(m) == {k \in m : k >= 0}
HasFrac(m) == \E k \in m : k < 0

\* f32::round / f64::round: to the nearest integer, ties away from zero
round(x) ==
    IF x.cls # "fin" THEN x
    ELSE IF -1 \in x.mag THEN Fin(x.neg, MagAdd(IntPart(x.mag), {0}))
    ELSE Fin(x.neg, IntPart(x.mag))

floor(x) ==
    IF x.cls # "fin" THEN x
    ELSE IF x.neg /\ HasFrac(x.mag) THEN Fin(TRUE, MagAdd(IntPart(x.mag), {0}))
    ELSE Fin(x.neg, IntPart(x.mag))

ceil(x) ==
    IF x.cls # "fin" THEN x
    ELSE IF ~x.neg /\ HasFrac(x.mag) THEN Fin(FALSE, MagAdd(IntPart(x.mag), {0}))
    ELSE Fin(x.neg, IntPart(x.mag))

trunc(x) == IF x.cls # "fin" THEN x ELSE Fin(x.neg, IntPart(x.mag))

\* float addition and subtraction round the exact result to the format
FloatSub(a, b, f) ==
    LET e == ExactSub(a, b) IN RoundFloat(e.neg, e.mag, f)

FloatAdd(a, b, f) ==
    LET e == ExactAdd(a, b) IN RoundFloat(e.neg, e.mag, f)

\* the integer a float denotes once its fraction is dropped
IntOf(x) == IF x.neg THEN Neg(x.mag) ELSE Pos(x.mag)

(***************************************************************************)
(* Conversion results.  ety is the error type the implementation declares  *)
(* (`type Err`), kept on Ok results too since it is static.                *)
(***************************************************************************)
Ok(ety, v) == [tag |-> "Ok", ety |-> ety, kind |-> "none", val |-> v]

Err(ety, kind, v) == [tag |-> "Err", ety |-> ety, kind |-> kind, val |-> v]

NoResult == [tag |-> "none", ety |-> "none", kind |-> "none", val |-> NoPayload]

\* the call did not return: an unreachable!() was executed
Panicked == [tag |-> "panic", ety |-> "none", kind |-> "none", val |-> NoPayload]

(***************************************************************************)
(* The boundary constants of limits.rs.  A float literal denotes the float *)
(* nearest to its decimal value.                                           *)
(***************************************************************************)
\* the float a literal denotes; m is the binary expansion of its decimal value
FloatLit(n, m, f) == RoundFloat(n, m, f)

\* i32::MAX as f32 in place of the literal
MAX_F32_I32_as_cast == AsCast(Pos(0..30), "i32", "f32", 32)

\* 2.1474835e9
MAX_F32_I32 == FloatLit(FALSE, NatBits(2147483500), "f32")
\* -2.1474836e9
MIN_F32_I32 == FloatLit(TRUE, NatBits(2147483600), "f32")
\* 9.2233715e18 = 9223371500000000000 = 0x7FFFFF8300F63800
MAX_F32_I64 ==
    FloatLit(FALSE, (11..13) \cup (17..18) \cup (20..23) \cup (32..33) \cup (39..62), "f32")
\* -9.223372e18 = -9223372000000000000 = -0x7FFFFFF76B48C000
MIN_F32_I64 ==
    FloatLit(TRUE, {19, 22, 27} \cup (14..15) \cup (24..25) \cup (29..30)
                       \cup (32..34) \cup (36..62), "f32")
\* 4.294967e9 = 4294967000 = 0xFFFFFED8
MAX_F32_U32 == FloatLit(FALSE, (3..4) \cup (6..7) \cup (9..31), "f32")
\* 1.8446743e19 = 18446743000000000000 = 0xFFFFFF0601EC7000
MAX_F32_U64 ==
    FloatLit(FALSE, (12..14) \cup (18..19) \cup (21..24) \cup (33..34) \cup (40..63), "f32")
\* i64::MAX as f64, which rounds up to 2^63
MAX_F64_I64_as_cast == Pos({63})

\* 9.223372036854775e18 = 9223372036854775000 = 0x7FFFFFFFFFFFFCD8
MAX_F64_I64 == FloatLit(FALSE, (3..4) \cup (6..7) \cup (10..62), "f64")
\* -9.223372036854776e18 = -9223372036854776000 = -0x80000000000000C0
MIN_F64_I64 == FloatLit(TRUE, {63} \cup (6..7), "f64")
\* 1.844674407370955e19 = 18446744073709550000 = 0xFFFFFFFFFFFFF9B0
MAX_F64_U64 == FloatLit(FALSE, (4..5) \cup (7..8) \cup (11..63), "f64")

\* MAX_F32_ISIZE taken from the 64-bit build whatever the pointer width
MAX_F32_ISIZE_64_only(pw) == MAX_F32_I64

MAX_F32_ISIZE(pw) == IF pw = 32 THEN MAX_F32_I32 ELSE MAX_F32_I64
MIN_F32_ISIZE(pw) == IF pw = 32 THEN MIN_F32_I32 ELSE MIN_F32_I64
MAX_F32_USIZE(pw) == IF pw = 32 THEN MAX_F32_U32 ELSE MAX_F32_U64

\* the literals 16_777_216 and 9_007_199_254_740_992 of lang_int_to_float
BOUND_F32 == Pos(NatBits(16777216))
\* 9_007_199_254_740_992 = 2^53
BOUND_F64 == Pos({53})

(***************************************************************************)
(* The rule tables.  A row <<src, arm, dst, cfg>> is one entry of a        *)
(* num_conv! invocation; cfg is 32 or 64 for an entry under #[32] / #[64]  *)
(* and 0 for an unconditional one.                                         *)
(***************************************************************************)
lang_ints == {
    <<"i8", "w", "i16", 0>>, <<"i8", "w", "i32", 0>>, <<"i8", "w", "i64", 0>>,
    <<"i8", "w+", "u8", 0>>, <<"i8", "w+", "u16", 0>>, <<"i8", "w+", "u32", 0>>,
    <<"i8", "w+", "u64", 0>>, <<"i8", "w", "isize", 0>>, <<"i8", "w+", "usize", 0>>,
    <<"i16", "n", "i8", 0>>, <<"i16", "w", "i32", 0>>, <<"i16", "w", "i64", 0>>,
    <<"i16", "n+", "u8", 0>>, <<"i16", "w+", "u16", 0>>, <<"i16", "w+", "u32", 0>>,
    <<"i16", "w+", "u64", 0>>, <<"i16", "w", "isize", 0>>, <<"i16", "w+", "usize", 0>>,
    <<"i32", "n", "i8", 0>>, <<"i32", "n", "i16", 0>>, <<"i32", "w", "i64", 0>>,
    <<"i32", "n+", "u8", 0>>, <<"i32", "n+", "u16", 0>>, <<"i32", "w+", "u32", 0>>,
    <<"i32", "w+", "u64", 0>>,
    <<"i64", "n", "i8", 0>>, <<"i64", "n", "i16", 0>>, <<"i64", "n", "i32", 0>>,
    <<"i64", "n+", "u8", 0>>, <<"i64", "n+", "u16", 0>>, <<"i64", "n+", "u32", 0>>,
    <<"i64", "w+", "u64", 0>>,
    <<"i32", "e", "isize", 32>>, <<"i32", "w", "isize", 64>>, <<"i32", "w+", "usize", 0>>,
    <<"i64", "n", "isize", 32>>, <<"i64", "e", "isize", 64>>, <<"i64", "n+", "usize", 32>>,
    <<"i64", "w+", "usize", 64>>,
    <<"u8", "n-", "i8", 0>>, <<"u8", "w", "i16", 0>>, <<"u8", "w", "i32", 0>>,
    <<"u8", "w", "i64", 0>>, <<"u8", "w", "u16", 0>>, <<"u8", "w", "u32", 0>>,
    <<"u8", "w", "u64", 0>>, <<"u8", "w", "isize", 0>>, <<"u8", "w", "usize", 0>>,
    <<"u16", "n-", "i8", 0>>, <<"u16", "n-", "i16", 0>>, <<"u16", "w", "i32", 0>>,
    <<"u16", "w", "i64", 0>>, <<"u16", "n-", "u8", 0>>, <<"u16", "w", "u32", 0>>,
    <<"u16", "w", "u64", 0>>, <<"u16", "w", "isize", 0>>, <<"u16", "w", "usize", 0>>,
    <<"u32", "n-", "i8", 0>>, <<"u32", "n-", "i16", 0>>, <<"u32", "n-", "i32", 0>>,
    <<"u32", "w", "i64", 0>>, <<"u32", "n-", "u8", 0>>, <<"u32", "n-", "u16", 0>>,
    <<"u32", "w", "u64", 0>>,
    <<"u64", "n-", "i8", 0>>, <<"u64", "n-", "i16", 0>>, <<"u64", "n-", "i32", 0>>,
    <<"u64", "n-", "i64", 0>>, <<"u64", "n-", "u8", 0>>, <<"u64", "n-", "u16", 0>>,
    <<"u64", "n-", "u32", 0>>,
    <<"u32", "n-", "isize", 32>>, <<"u32", "w", "isize", 64>>, <<"u32", "e", "usize", 32>>,
    <<"u32", "w", "usize", 64>>,
    <<"u64", "n-", "isize", 0>>, <<"u64", "n-", "usize", 32>>, <<"u64", "e", "usize", 64>>,
    <<"isize", "n", "i8", 0>>, <<"isize", "n", "i16", 0>>, <<"isize", "e", "i32", 32>>,
    <<"isize", "w", "i64", 32>>, <<"isize", "n", "i32", 64>>, <<"isize", "e", "i64", 64>>,
    <<"isize", "n+", "u8", 0>>, <<"isize", "n+", "u16", 0>>, <<"isize", "w+", "u32", 32>>,
    <<"isize", "w+", "u64", 32>>, <<"isize", "n+", "u32", 64>>, <<"isize", "w+", "u64", 64>>,
    <<"isize", "w+", "usize", 0>>,
    <<"usize", "n-", "i8", 0>>, <<"usize", "n-", "i16", 0>>, <<"usize", "n-", "i32", 32>>,
    <<"usize", "w", "i64", 32>>, <<"usize", "n-", "i32", 64>>, <<"usize", "n-", "i64", 64>>,
    <<"usize", "n-", "u8", 0>>, <<"usize", "n-", "u16", 0>>, <<"usize", "e", "u32", 32>>,
    <<"usize", "w", "u64", 32>>, <<"usize", "n-", "u32", 64>>, <<"usize", "e", "u64", 64>>,
    <<"usize", "n-", "isize", 0>>
}

lang_int_to_float == {
    <<"i8", "w", "f32", 0>>, <<"i8", "w", "f64", 0>>,
    <<"i16", "w", "f32", 0>>, <<"i16", "w", "f64", 0>>,
    <<"i32", "nf+-", "f32", 0>>, <<"i32", "w", "f64", 0>>,
    <<"i64", "nf+-", "f32", 0>>, <<"i64", "nf+-", "f64", 0>>,
    <<"u8", "w", "f32", 0>>, <<"u8", "w", "f64", 0>>,
    <<"u16", "w", "f32", 0>>, <<"u16", "w", "f64", 0>>,
    <<"u32", "nf,", "f32", 0>>, <<"u32", "w", "f64", 0>>,
    <<"u64", "nf,", "f32", 0>>, <<"u64", "nf,", "f64", 0>>,
    <<"isize", "nf+-", "f32", 0>>,
    <<"isize", "w", "f64", 32>>, <<"isize", "nf+-", "f64", 64>>,
    <<"usize", "nf,", "f32", 0>>,
    <<"usize", "w", "f64", 32>>, <<"usize", "nf,", "f64", 64>>
}

\* the bound literal of an nf entry is fixed by its destination
NfBound(d) == IF d = "f32" THEN BOUND_F32 ELSE BOUND_F64

\* the arm of num_conv! that implements src -> dst in the build, if any
ArmTable ==
    [s \in Types, d \in Types, pw \in PointerWidths |->
        LET rows == {r \in lang_ints \cup lang_int_to_float :
                        r[1] = s /\ r[3] = d /\ r[4] \in {0, pw}}
        IN  IF rows = {} THEN "none" ELSE (CHOOSE r \in rows : TRUE)[2]]

Arm(s, d, pw) == ArmTable[s, d, pw]

(***************************************************************************)
(* The approx_* macros of impls.rs: integer sources.                       *)
(***************************************************************************)
\* approx_blind with a cast that clamps to the destination's range
approx_blind_saturating(s, d, x, pw) ==
    IF d \in IntTypes /\ Lt(x, IntMIN(d, pw)) THEN Ok("NoError", IntMIN(d, pw))
    ELSE IF d \in IntTypes /\ Gt(x, IntMAX(d, pw)) THEN Ok("NoError", IntMAX(d, pw))
    ELSE Ok("NoError", AsCast(x, s, d, pw))

approx_blind(s, d, x, pw) == Ok("NoError", AsCast(x, s, d, pw))

approx_z_to_dmax(s, d, x, pw) ==
    IF Lt(x, Zero) THEN Err("RangeError", "NegOverflow", x)
    ELSE IF Gt(x, AsCast(IntMAX(d, pw), d, s, pw))
    THEN Err("RangeError", "PosOverflow", x)
    ELSE Ok("RangeError", AsCast(x, s, d, pw))

\* approx_to_dmax that wraps instead of testing the upper bound
approx_to_dmax_wrapping(s, d, x, pw) == Ok("PosOverflow", AsCast(x, s, d, pw))

approx_to_dmax(s, d, x, pw) ==
    IF Gt(x, AsCast(IntMAX(d, pw), d, s, pw))
    THEN Err("PosOverflow", "PosOverflow", x)
    ELSE Ok("PosOverflow", AsCast(x, s, d, pw))

\* approx_dmin_to_dmax that wraps instead of testing the bounds
approx_dmin_to_dmax_wrapping(s, d, x, pw) == Ok("RangeError", AsCast(x, s, d, pw))

approx_dmin_to_dmax(s, d, x, pw) ==
    IF Lt(x, AsCast(IntMIN(d, pw), d, s, pw))
    THEN Err("RangeError", "NegOverflow", x)
    ELSE IF Gt(x, AsCast(IntMAX(d, pw), d, s, pw))
    THEN Err("RangeError", "PosOverflow", x)
    ELSE Ok("RangeError", AsCast(x, s, d, pw))

approx_z_up(s, d, x, pw) ==
    IF Lt(x, Zero) THEN Err("NegOverflow", "NegOverflow", x)
    ELSE Ok("NegOverflow", AsCast(x, s, d, pw))

(***************************************************************************)
(* The value_from of each num_conv! arm.                                   *)
(***************************************************************************)
value_from_e(s, d, x, pw) == Ok("NoError", AsCast(x, s, d, pw))

value_from_n_plus(s, d, x, pw) ==
    IF Lt(x, Zero) THEN Err("RangeError", "NegOverflow", x)
    ELSE IF Gt(x, AsCast(IntMAX(d, pw), d, s, pw))
    THEN Err("RangeError", "PosOverflow", x)
    ELSE Ok("RangeError", AsCast(x, s, d, pw))

\* value_from_n_minus declared with the two-sided RangeError
value_from_n_minus_as_RangeError(s, d, x, pw) ==
    IF Gt(x, AsCast(IntMAX(d, pw), d, s, pw))
    THEN Err("RangeError", "PosOverflow", x)
    ELSE Ok("RangeError", AsCast(x, s, d, pw))

value_from_n_minus(s, d, x, pw) ==
    IF Gt(x, AsCast(IntMAX(d, pw), d, s, pw))
    THEN Err("PosOverflow", "PosOverflow", x)
    ELSE Ok("PosOverflow", AsCast(x, s, d, pw))

\* value_from_n with `<=` in the test against the destination's minimum
value_from_n_min_exclusive(s, d, x, pw) ==
    IF Le(x, AsCast(IntMIN(d, pw), d, s, pw))
    THEN Err("RangeError", "NegOverflow", x)
    ELSE IF Gt(x, AsCast(IntMAX(d, pw), d, s, pw))
    THEN Err("RangeError", "PosOverflow", x)
    ELSE Ok("RangeError", AsCast(x, s, d, pw))

value_from_n(s, d, x, pw) ==
    IF Lt(x, AsCast(IntMIN(d, pw), d, s, pw))
    THEN Err("RangeError", "NegOverflow", x)
    ELSE IF Gt(x, AsCast(IntMAX(d, pw), d, s, pw))
    THEN Err("RangeError", "PosOverflow", x)
    ELSE Ok("RangeError", AsCast(x, s, d, pw))

\* value_from_w_plus without the test against zero
value_from_w_plus_unchecked(s, d, x, pw) == Ok("NegOverflow", AsCast(x, s, d, pw))

value_from_w_plus(s, d, x, pw) ==
    IF Lt(x, Zero) THEN Err("NegOverflow", "NegOverflow", x)
    ELSE Ok("NegOverflow", AsCast(x, s, d, pw))

\* value_from_w with the negative check of the w+ arm
value_from_w_rejects_negative(s, d, x, pw) ==
    IF Lt(x, Zero) THEN Err("NegOverflow", "NegOverflow", x)
    ELSE Ok("NoError", AsCast(x, s, d, pw))

value_from_w(s, d, x, pw) == Ok("NoError", AsCast(x, s, d, pw))

\* value_from_nf_pm without the test against -bound
value_from_nf_pm_no_neg_check(s, d, bound, x, pw) ==
    IF Gt(x, bound) THEN Err("RangeError", "PosOverflow", x)
    ELSE Ok("RangeError", AsCast(x, s, d, pw))

value_from_nf_pm(s, d, bound, x, pw) ==
    IF Lt(x, Negate(bound)) THEN Err("RangeError", "NegOverflow", x)
    ELSE IF Gt(x, bound) THEN Err("RangeError", "PosOverflow", x)
    ELSE Ok("RangeError", AsCast(x, s, d, pw))

value_from_nf_max(s, d, max, x, pw) ==
    IF Gt(x, max) THEN Err("PosOverflow", "PosOverflow", x)
    ELSE Ok("PosOverflow", AsCast(x, s, d, pw))

\* impl ValueFrom<Src> for Src, and ValueFrom<f32> for f64
value_from_self(x) == Ok("NoError", x)

value_from_f32_f64(x, pw) == Ok("NoError", AsCast(x, "f32", "f64", pw))

HasValueFrom(s, d, pw) ==
    \/ s = d
    \/ Arm(s, d, pw) # "none"
    \/ s = "f32" /\ d = "f64"

value_from(s, d, x, pw) ==
    LET arm == Arm(s, d, pw)
    IN  CASE s = d -> value_from_self(x)
          [] arm = "e" -> value_from_e(s, d, x, pw)
          [] arm = "n+" -> value_from_n_plus(s, d, x, pw)
          [] arm = "n-" -> value_from_n_minus(s, d, x, pw)
          [] arm = "n" -> value_from_n(s, d, x, pw)
          [] arm = "w+" -> value_from_w_plus(s, d, x, pw)
          [] arm = "w" -> value_from_w(s, d, x, pw)
          [] arm = "nf+-" -> value_from_nf_pm(s, d, NfBound(d), x, pw)
          [] arm = "nf," -> value_from_nf_max(s, d, NfBound(d), x, pw)
          [] s = "f32" /\ d = "f64" -> value_from_f32_f64(x, pw)

(***************************************************************************)
(* Float sources.                                                          *)
(***************************************************************************)
Schemes == {"DefaultApprox", "Wrapping", "RoundToNearest", "RoundToNegInf",
            "RoundToPosInf", "RoundToZero"}

\* f32::to_int_unchecked / f64::to_int_unchecked: the truncated value when
\* it fits the destination; otherwise the behaviour is undefined and any
\* value of the destination may come out.
to_int_unchecked(x, d, pw) ==
    LET t == IF x.neg THEN Neg(IntPart(x.mag)) ELSE Pos(IntPart(x.mag))
    IN  IF x.cls = "fin" /\ InIntRange(t, d, pw) THEN {t}
        ELSE {IntMIN(d, pw), Zero, One, IntMAX(d, pw)}

\* the $conv closure of an impl_float2int_round! invocation
call(cv, x) ==
    CASE cv = "round" -> round(x)
      [] cv = "floor" -> floor(x)
      [] cv = "ceil" -> ceil(x)

\* impl_float2int_round whose errors carry the rounded value
impl_float2int_round_err_approx(s, d, min, max, cv, x, pw) ==
    IF is_nan(x) THEN {Err("FloatError", "NotANumber", x)}
    ELSE LET approx == call(cv, x)
         IN  IF Lt(approx, min) THEN {Err("FloatError", "NegOverflow", approx)}
             ELSE IF Gt(approx, max) THEN {Err("FloatError", "PosOverflow", approx)}
             ELSE {Ok("FloatError", y) : y \in to_int_unchecked(approx, d, pw)}

\* impl_float2int_round that tests the source, not the rounded value
impl_float2int_round_bounds_src(s, d, min, max, cv, x, pw) ==
    IF is_nan(x) THEN {Err("FloatError", "NotANumber", x)}
    ELSE LET approx == call(cv, x)
         IN  IF Lt(x, min) THEN {Err("FloatError", "NegOverflow", x)}
             ELSE IF Gt(x, max) THEN {Err("FloatError", "PosOverflow", x)}
             ELSE {Ok("FloatError", y) : y \in to_int_unchecked(approx, d, pw)}

\* impl_float2int_round that tests the upper bound before the lower one
impl_float2int_round_max_first(s, d, min, max, cv, x, pw) ==
    IF is_nan(x) THEN {Err("FloatError", "NotANumber", x)}
    ELSE LET approx == call(cv, x)
         IN  IF Gt(approx, max) THEN {Err("FloatError", "PosOverflow", x)}
             ELSE IF Lt(approx, min) THEN {Err("FloatError", "NegOverflow", x)}
             ELSE {Ok("FloatError", y) : y \in to_int_unchecked(approx, d, pw)}

impl_float2int_round(s, d, min, max, cv, x, pw) ==
    IF is_nan(x) THEN {Err("FloatError", "NotANumber", x)}
    ELSE LET approx == call(cv, x)
         IN  IF Lt(approx, min) THEN {Err("FloatError", "NegOverflow", x)}
             ELSE IF Gt(approx, max) THEN {Err("FloatError", "PosOverflow", x)}
             ELSE {Ok("FloatError", y) : y \in to_int_unchecked(approx, d, pw)}

\* impl_float2int_trunc_large that rejects every non-finite source as
\* not-a-number
impl_float2int_trunc_large_finite_only(s, d, min, max, x, pw) ==
    IF ~is_finite(x) THEN {Err("FloatError", "NotANumber", x)}
    ELSE IF Lt(x, min) THEN {Err("FloatError", "NegOverflow", x)}
    ELSE IF Gt(x, max) THEN {Err("FloatError", "PosOverflow", x)}
    ELSE {Ok("FloatError", y) : y \in to_int_unchecked(x, d, pw)}

impl_float2int_trunc_large(s, d, min, max, x, pw) ==
    IF is_nan(x) THEN {Err("FloatError", "NotANumber", x)}
    ELSE IF Lt(x, min) THEN {Err("FloatError", "NegOverflow", x)}
    ELSE IF Gt(x, max) THEN {Err("FloatError", "PosOverflow", x)}
    ELSE {Ok("FloatError", y) : y \in to_int_unchecked(x, d, pw)}

\* impl_float2int_trunc without the is_nan test
impl_float2int_trunc_no_nan_test(s, d, min, max, x, pw) ==
    IF Le(x, min) THEN {Err("FloatError", "NegOverflow", x)}
    ELSE IF Ge(x, max) THEN {Err("FloatError", "PosOverflow", x)}
    ELSE {Ok("FloatError", y) : y \in to_int_unchecked(x, d, pw)}

impl_float2int_trunc(s, d, min, max, x, pw) ==
    IF is_nan(x) THEN {Err("FloatError", "NotANumber", x)}
    ELSE IF Le(x, min) THEN {Err("FloatError", "NegOverflow", x)}
    ELSE IF Ge(x, max) THEN {Err("FloatError", "PosOverflow", x)}
    ELSE {Ok("FloatError", y) : y \in to_int_unchecked(x, d, pw)}

\* num_conv_float2int!(src => [min, max] dst) whose default scheme treats the
\* limits as the first values that fail
num_conv_float2int_limits_default_exclusive(s, d, min, max, sch, x, pw) ==
    CASE sch = "DefaultApprox" -> impl_float2int_trunc(s, d, min, max, x, pw)
      [] sch = "RoundToZero" -> impl_float2int_trunc_large(s, d, min, max, x, pw)
      [] sch = "RoundToNearest" -> impl_float2int_round(s, d, min, max, "round", x, pw)
      [] sch = "RoundToNegInf" -> impl_float2int_round(s, d, min, max, "floor", x, pw)
      [] sch = "RoundToPosInf" -> impl_float2int_round(s, d, min, max, "ceil", x, pw)

\* num_conv_float2int!(src => [min, max] dst)
num_conv_float2int_limits(s, d, min, max, sch, x, pw) ==
    CASE sch = "DefaultApprox" -> impl_float2int_trunc_large(s, d, min, max, x, pw)
      [] sch = "RoundToZero" -> impl_float2int_trunc_large(s, d, min, max, x, pw)
      [] sch = "RoundToNearest" -> impl_float2int_round(s, d, min, max, "round", x, pw)
      [] sch = "RoundToNegInf" -> impl_float2int_round(s, d, min, max, "floor", x, pw)
      [] sch = "RoundToPosInf" -> impl_float2int_round(s, d, min, max, "ceil", x, pw)

\* num_conv_float2int!(src => dst)
num_conv_float2int_dst(s, d, sch, x, pw) ==
    LET dmin == AsCast(IntMIN(d, pw), d, s, pw)
        dmax == AsCast(IntMAX(d, pw), d, s, pw)
        lo == FloatSub(dmin, One, s)
        hi == FloatAdd(dmax, One, s)
    IN  CASE sch = "DefaultApprox" -> impl_float2int_trunc(s, d, lo, hi, x, pw)
          [] sch = "RoundToZero" -> impl_float2int_trunc(s, d, lo, hi, x, pw)
          [] sch = "RoundToNearest" -> impl_float2int_round(s, d, dmin, dmax, "round", x, pw)
          [] sch = "RoundToNegInf" -> impl_float2int_round(s, d, dmin, dmax, "floor", x, pw)
          [] sch = "RoundToPosInf" -> impl_float2int_round(s, d, dmin, dmax, "ceil", x, pw)

\* the invocations of lang_float_to_int: <<min, max>> for an entry with
\* explicit limits, <<>> for one that uses the destination's MIN and MAX
lang_float_to_int(s, d, pw) ==
    CASE s = "f32" /\ d = "i32" -> <<MIN_F32_I32, MAX_F32_I32>>
      [] s = "f32" /\ d = "i64" -> <<MIN_F32_I64, MAX_F32_I64>>
      [] s = "f32" /\ d = "u32" -> <<Zero, MAX_F32_U32>>
      [] s = "f32" /\ d = "u64" -> <<Zero, MAX_F32_U64>>
      [] s = "f32" /\ d = "isize" -> <<MIN_F32_ISIZE(pw), MAX_F32_ISIZE(pw)>>
      [] s = "f32" /\ d = "usize" -> <<Zero, MAX_F32_USIZE(pw)>>
      [] s = "f64" /\ d = "i64" -> <<MIN_F64_I64, MAX_F64_I64>>
      [] s = "f64" /\ d = "u64" -> <<Zero, MAX_F64_U64>>
      [] s = "f64" /\ d = "isize" /\ pw = 64 -> <<MIN_F64_I64, MAX_F64_I64>>
      [] s = "f64" /\ d = "usize" /\ pw = 64 -> <<Zero, MAX_F64_U64>>
      [] OTHER -> <<>>

approx_from_float2int(s, d, sch, x, pw) ==
    LET lim == lang_float_to_int(s, d, pw)
    IN  IF lim = <<>> THEN num_conv_float2int_dst(s, d, sch, x, pw)
        ELSE num_conv_float2int_limits(s, d, lim[1], lim[2], sch, x, pw)

F32_MIN == Fin(TRUE, 104..127)
F32_MAX == Pos(104..127)

\* impl<Scheme> ApproxFrom<f32, Scheme> for f64
approx_from_f32_f64(x, pw) == Ok("NoError", AsCast(x, "f32", "f64", pw))

\* ApproxFrom<f64> for f32 without the is_finite test
approx_from_f64_f32_no_finite_test(x, pw) ==
    IF Lt(x, AsCast(F32_MIN, "f32", "f64", pw))
    THEN Err("RangeError", "NegOverflow", x)
    ELSE IF Gt(x, AsCast(F32_MAX, "f32", "f64", pw))
    THEN Err("RangeError", "PosOverflow", x)
    ELSE Ok("RangeError", AsCast(x, "f64", "f32", pw))

\* impl ApproxFrom<f64> for f32
approx_from_f64_f32(x, pw) ==
    IF ~is_finite(x) THEN Ok("RangeError", AsCast(x, "f64", "f32", pw))
    ELSE IF Lt(x, AsCast(F32_MIN, "f32", "f64", pw))
    THEN Err("RangeError", "NegOverflow", x)
    ELSE IF Gt(x, AsCast(F32_MAX, "f32", "f64", pw))
    THEN Err("RangeError", "PosOverflow", x)
    ELSE Ok("RangeError", AsCast(x, "f64", "f32", pw))

\* impl<Src, Scheme> ApproxFrom<Src, Scheme> for Src
approx_from_self(x) == Ok("NoError", x)

\* the ApproxFrom<src, scheme> implementations that exist for dst
HasApproxFrom(s, d, sch, pw) ==
    LET arm == Arm(s, d, pw)
    IN  \/ s = d
        \/ arm \in {"e", "n+", "n-", "n", "w+", "w"} /\ sch \in {"DefaultApprox", "Wrapping"}
        \/ arm \in {"nf+-", "nf,"} /\ sch = "DefaultApprox"
        \/ s = "f32" /\ d = "f64"
        \/ s = "f64" /\ d = "f32" /\ sch = "DefaultApprox"
        \/ s \in FloatTypes /\ d \in IntTypes /\ sch # "Wrapping"

\* the set of results approx_from can return
approx_from(s, d, sch, x, pw) ==
    LET arm == Arm(s, d, pw)
    IN  CASE s = d -> {approx_from_self(x)}
          [] arm # "none" /\ sch = "Wrapping" -> {approx_blind(s, d, x, pw)}
          [] arm \in {"e", "w", "nf+-", "nf,"} -> {approx_blind(s, d, x, pw)}
          [] arm = "n+" -> {approx_z_to_dmax(s, d, x, pw)}
          [] arm = "n-" -> {approx_to_dmax(s, d, x, pw)}
          [] arm = "n" -> {approx_dmin_to_dmax(s, d, x, pw)}
          [] arm = "w+" -> {approx_z_up(s, d, x, pw)}
          [] s = "f32" /\ d = "f64" -> {approx_from_f32_f64(x, pw)}
          [] s = "f64" /\ d = "f32" -> {approx_from_f64_f32(x, pw)}
          [] OTHER -> approx_from_float2int(s, d, sch, x, pw)

(***************************************************************************)
(* errors.rs: conversion to the payload-free RangeErrorKind, and Saturate. *)
(***************************************************************************)
\* From<NegOverflow<T>>, From<PosOverflow<T>> and From<RangeError<T>> for
\* RangeErrorKind, applied to a result by map_err(Into::into)
into_RangeErrorKind(r) ==
    CASE r.tag = "Ok" -> Ok("RangeErrorKind", r.val)
      [] r.ety = "NegOverflow" -> Err("RangeErrorKind", "NegOverflow", NoPayload)
      [] r.ety = "PosOverflow" -> Err("RangeErrorKind", "PosOverflow", NoPayload)
      [] r.ety = "RangeError" /\ r.kind = "NegOverflow" ->
            Err("RangeErrorKind", "NegOverflow", NoPayload)
      [] r.ety = "RangeError" /\ r.kind = "PosOverflow" ->
            Err("RangeErrorKind", "PosOverflow", NoPayload)
      [] r.ety = "NoError" -> Panicked

\* From<NoError / NegOverflow / PosOverflow> for RangeError<T>
into_RangeError(r) ==
    CASE r.tag = "Ok" -> Ok("RangeError", r.val)
      [] r.ety = "NoError" -> Panicked
      [] r.ety = "NegOverflow" -> Err("RangeError", "NegOverflow", r.val)
      [] r.ety = "PosOverflow" -> Err("RangeError", "PosOverflow", r.val)

\* a conversion into FloatError that exchanges the sides of a RangeError
into_FloatError_RangeError_swapped(r) ==
    CASE r.tag = "Ok" -> Ok("FloatError", r.val)
      [] r.ety = "NoError" -> Panicked
      [] r.ety = "NegOverflow" -> Err("FloatError", "NegOverflow", r.val)
      [] r.ety = "PosOverflow" -> Err("FloatError", "PosOverflow", r.val)
      [] r.ety = "RangeError" /\ r.kind = "NegOverflow" ->
            Err("FloatError", "PosOverflow", r.val)
      [] r.ety = "RangeError" /\ r.kind = "PosOverflow" ->
            Err("FloatError", "NegOverflow", r.val)

\* From<NoError / NegOverflow / PosOverflow / RangeError> for FloatError<T>
into_FloatError(r) ==
    CASE r.tag = "Ok" -> Ok("FloatError", r.val)
      [] r.ety = "NoError" -> Panicked
      [] r.ety = "NegOverflow" -> Err("FloatError", "NegOverflow", r.val)
      [] r.ety = "PosOverflow" -> Err("FloatError", "PosOverflow", r.val)
      [] r.ety = "RangeError" /\ r.kind = "NegOverflow" ->
            Err("FloatError", "NegOverflow", r.val)
      [] r.ety = "RangeError" /\ r.kind = "PosOverflow" ->
            Err("FloatError", "PosOverflow", r.val)

\* a conversion into GeneralError that files not-a-number under positive
\* overflow
into_GeneralError_nan_as_overflow(r) ==
    CASE r.tag = "Ok" -> Ok("GeneralError", r.val)
      [] r.ety = "NoError" -> Panicked
      [] r.kind = "NegOverflow" -> Err("GeneralError", "NegOverflow", r.val)
      [] r.kind = "Unrepresentable" -> Err("GeneralError", "Unrepresentable", r.val)
      [] OTHER -> Err("GeneralError", "PosOverflow", r.val)

\* a conversion into GeneralError that treats not-a-number as unreachable
into_GeneralError_nan_unreachable(r) ==
    CASE r.tag = "Ok" -> Ok("GeneralError", r.val)
      [] r.ety = "NoError" -> Panicked
      [] r.kind = "NotANumber" -> Panicked
      [] OTHER -> Err("GeneralError", r.kind, r.val)

\* From<NoError / Unrepresentable / NegOverflow / PosOverflow / RangeError /
\* FloatError> for GeneralError<T>
into_GeneralError(r) ==
    CASE r.tag = "Ok" -> Ok("GeneralError", r.val)
      [] r.ety = "NoError" -> Panicked
      [] r.ety = "Unrepresentable" -> Err("GeneralError", "Unrepresentable", r.val)
      [] r.ety = "NegOverflow" -> Err("GeneralError", "NegOverflow", r.val)
      [] r.ety = "PosOverflow" -> Err("GeneralError", "PosOverflow", r.val)
      [] r.ety = "RangeError" /\ r.kind = "NegOverflow" ->
            Err("GeneralError", "NegOverflow", r.val)
      [] r.ety = "RangeError" /\ r.kind = "PosOverflow" ->
            Err("GeneralError", "PosOverflow", r.val)
      [] r.ety = "FloatError" /\ r.kind = "NegOverflow" ->
            Err("GeneralError", "NegOverflow", r.val)
      [] r.ety = "FloatError" /\ r.kind = "PosOverflow" ->
            Err("GeneralError", "PosOverflow", r.val)
      [] r.ety = "FloatError" /\ r.kind = "NotANumber" ->
            Err("GeneralError", "Unrepresentable", r.val)

\* a conversion into GeneralErrorKind that knows the two overflows only
into_GeneralErrorKind_overflow_only(r) ==
    CASE r.tag = "Ok" -> Ok("GeneralErrorKind", r.val)
      [] r.ety = "NoError" -> Panicked
      [] r.kind = "NegOverflow" -> Err("GeneralErrorKind", "NegOverflow", NoPayload)
      [] OTHER -> Err("GeneralErrorKind", "PosOverflow", NoPayload)

\* From<..> for GeneralErrorKind
into_GeneralErrorKind(r) ==
    CASE r.tag = "Ok" -> Ok("GeneralErrorKind", r.val)
      [] r.ety = "NoError" -> Panicked
      [] r.ety = "Unrepresentable" ->
            Err("GeneralErrorKind", "Unrepresentable", NoPayload)
      [] r.ety = "NegOverflow" -> Err("GeneralErrorKind", "NegOverflow", NoPayload)
      [] r.ety = "PosOverflow" -> Err("GeneralErrorKind", "PosOverflow", NoPayload)
      [] r.ety \in {"RangeErrorKind", "RangeError", "GeneralError", "FloatError"}
            /\ r.kind = "NegOverflow" ->
            Err("GeneralErrorKind", "NegOverflow", NoPayload)
      [] r.ety \in {"RangeErrorKind", "RangeError", "GeneralError", "FloatError"}
            /\ r.kind = "PosOverflow" ->
            Err("GeneralErrorKind", "PosOverflow", NoPayload)
      [] r.ety = "GeneralError" /\ r.kind = "Unrepresentable" ->
            Err("GeneralErrorKind", "Unrepresentable", NoPayload)
      [] r.ety = "FloatError" /\ r.kind = "NotANumber" ->
            Err("GeneralErrorKind", "Unrepresentable", NoPayload)

\* the variants of each error type
Variants(ety) ==
    CASE ety = "NoError" -> {}
      [] ety \in {"NegOverflow", "PosOverflow", "Unrepresentable"} -> {ety}
      [] ety \in {"RangeError", "RangeErrorKind"} -> {"NegOverflow", "PosOverflow"}
      [] ety = "FloatError" -> {"NegOverflow", "PosOverflow", "NotANumber"}
      [] ety \in {"GeneralError", "GeneralErrorKind"} ->
            {"NegOverflow", "PosOverflow", "Unrepresentable"}

\* the From implementations between the error types: <<from, to>>
FromImpls ==
    ({"NoError"} \X {"Unrepresentable", "NegOverflow", "PosOverflow", "RangeError",
                     "RangeErrorKind", "FloatError", "GeneralError",
                     "GeneralErrorKind"})
    \cup ({"NegOverflow", "PosOverflow"} \X {"RangeError", "RangeErrorKind",
                     "FloatError", "GeneralError", "GeneralErrorKind"})
    \cup ({"RangeError"} \X {"RangeErrorKind", "FloatError", "GeneralError",
                     "GeneralErrorKind"})
    \cup ({"RangeErrorKind"} \X {"GeneralErrorKind"})
    \cup ({"FloatError", "Unrepresentable"} \X {"GeneralError", "GeneralErrorKind"})
    \cup ({"GeneralError"} \X {"GeneralErrorKind"})

\* result.map_err(Into::<to>::into)
map_err_into(to, r) ==
    CASE to = "RangeErrorKind" -> into_RangeErrorKind(r)
      [] to = "RangeError" -> into_RangeError(r)
      [] to = "FloatError" -> into_FloatError(r)
      [] to = "GeneralError" -> into_GeneralError(r)
      [] to = "GeneralErrorKind" -> into_GeneralErrorKind(r)

\* misc::Saturated for the integer types
saturated_min(d, pw) == IntMIN(d, pw)
saturated_max(d, pw) == IntMAX(d, pw)

\* saturate that resolves a NaN as `as` would, to zero
saturate_FloatError_nan_zero(r, d, pw) ==
    CASE r.tag = "Ok" -> Ok("Unrepresentable", r.val)
      [] r.kind = "NegOverflow" -> Ok("Unrepresentable", saturated_min(d, pw))
      [] r.kind = "PosOverflow" -> Ok("Unrepresentable", saturated_max(d, pw))
      [] r.kind = "NotANumber" -> Ok("Unrepresentable", Zero)

saturate_FloatError(r, d, pw) ==
    CASE r.tag = "Ok" -> Ok("Unrepresentable", r.val)
      [] r.kind = "NegOverflow" -> Ok("Unrepresentable", saturated_min(d, pw))
      [] r.kind = "PosOverflow" -> Ok("Unrepresentable", saturated_max(d, pw))
      [] r.kind = "NotANumber" -> Err("Unrepresentable", "Unrepresentable", r.val)

\* saturate with the two bounds exchanged
saturate_RangeError_swapped(r, d, pw) ==
    CASE r.tag = "Ok" -> Ok("NoError", r.val)
      [] r.kind = "NegOverflow" -> Ok("NoError", saturated_max(d, pw))
      [] r.kind = "PosOverflow" -> Ok("NoError", saturated_min(d, pw))

saturate_RangeError(r, d, pw) ==
    CASE r.tag = "Ok" -> Ok("NoError", r.val)
      [] r.kind = "NegOverflow" -> Ok("NoError", saturated_min(d, pw))
      [] r.kind = "PosOverflow" -> Ok("NoError", saturated_max(d, pw))

saturate_RangeErrorKind(r, d, pw) ==
    CASE r.tag = "Ok" -> Ok("NoError", r.val)
      [] r.kind = "NegOverflow" -> Ok("NoError", saturated_min(d, pw))
      [] r.kind = "PosOverflow" -> Ok("NoError", saturated_max(d, pw))

\* the error types E for which Saturate is implemented on Result<T, E>
HasSaturate(ety) == ety \in {"FloatError", "RangeError", "RangeErrorKind"}

saturate(r, d, pw) ==
    CASE r.ety = "FloatError" -> saturate_FloatError(r, d, pw)
      [] r.ety = "RangeError" -> saturate_RangeError(r, d, pw)
      [] r.ety = "RangeErrorKind" -> saturate_RangeErrorKind(r, d, pw)

\* the error types E with E: Into<RangeErrorKind>
IntoRangeErrorKind == {"NoError", "NegOverflow", "PosOverflow", "RangeError",
                       "RangeErrorKind"}

\* the value of a call that did not return
PanicValue == [cls |-> "panic", neg |-> FALSE, mag |-> {}]

\* UnwrapOk for Result<T, NoError>; the Err arm matches on an uninhabited
\* value and has no code
unwrap_ok(r) ==
    CASE r.tag = "Ok" -> r.val
      [] r.tag = "panic" -> PanicValue

\* misc::SignedInfinity for the float types
neg_infinity(d) == NegInf
pos_infinity(d) == PosInf

\* misc::InvalidSentinel: the all-ones bit pattern of the type
invalid_sentinel(d, pw) ==
    IF d \in IntTypes THEN WrapInt(Pos(0..(BITS(d, pw) - 1)), d, pw) ELSE NaN

\* unwrap_or_inf that answers every overflow with positive infinity
unwrap_or_inf_unsigned(r, d) ==
    LET m == IF r.ety = "RangeErrorKind" THEN r ELSE into_RangeErrorKind(r)
    IN  CASE m.tag = "Ok" -> m.val
          [] m.tag = "panic" -> PanicValue
          [] OTHER -> pos_infinity(d)

unwrap_or_inf(r, d) ==
    LET m == IF r.ety = "RangeErrorKind" THEN r ELSE into_RangeErrorKind(r)
    IN  CASE m.tag = "Ok" -> m.val
          [] m.tag = "panic" -> PanicValue
          [] m.kind = "NegOverflow" -> neg_infinity(d)
          [] m.kind = "PosOverflow" -> pos_infinity(d)

\* unwrap_or_invalid that saturates where the error has a direction
unwrap_or_invalid_saturating(r, d, pw) ==
    CASE r.tag = "Ok" -> r.val
      [] r.tag = "Err" /\ r.kind = "NegOverflow" -> saturated_min(d, pw)
      [] r.tag = "Err" /\ r.kind = "PosOverflow" -> saturated_max(d, pw)
      [] OTHER -> invalid_sentinel(d, pw)

unwrap_or_invalid(r, d, pw) ==
    CASE r.tag = "Ok" -> r.val
      [] r.tag = "Err" -> invalid_sentinel(d, pw)

\* unwrap_or_saturate with the two bounds exchanged
unwrap_or_saturate_swapped(r, d, pw) ==
    LET m == IF r.ety = "RangeErrorKind" THEN r ELSE into_RangeErrorKind(r)
    IN  CASE m.tag = "Ok" -> m.val
          [] m.tag = "panic" -> PanicValue
          [] m.kind = "NegOverflow" -> saturated_max(d, pw)
          [] m.kind = "PosOverflow" -> saturated_min(d, pw)

unwrap_or_saturate(r, d, pw) ==
    LET m == IF r.ety = "RangeErrorKind" THEN r ELSE into_RangeErrorKind(r)
    IN  CASE m.tag = "Ok" -> m.val
          [] m.tag = "panic" -> PanicValue
          [] m.kind = "NegOverflow" -> saturated_min(d, pw)
          [] m.kind = "PosOverflow" -> saturated_max(d, pw)

(***************************************************************************)
(* The inputs explored: values at and around the bounds of every type and  *)
(* the literals of the rules, and the values the crate's tests and docs    *)
(* use.                                                                    *)
(***************************************************************************)
\* tests/lang_floats.rs: step / step64, the next float that differs from x
\* in the direction of st
RECURSIVE step(_, _, _)
step(x, st, f) ==
    LET y == FloatAdd(x, st, f)
    IN  IF y # x THEN y ELSE step(x, Fin(st.neg, Shl(st.mag, 1)), f)

StepAway(x, f) == step(x, Fin(x.neg, {0}), f)

AnchorMags(pw) ==
    {{}, NatBits(5), NatBits(41), NatBits(200), NatBits(400)}
    \cup {IntMIN(t, pw).mag : t \in IntTypes}
    \cup {IntMAX(t, pw).mag : t \in IntTypes}
    \cup {BOUND_F32.mag, BOUND_F64.mag}
    \cup {MAX_F32_I32.mag, MAX_F32_I64.mag, MAX_F32_U32.mag, MAX_F32_U64.mag,
          MAX_F64_I64.mag, MAX_F64_U64.mag}
    \cup {F32_MAX.mag}

Anchors(pw) == {Neg(m) : m \in AnchorMags(pw)} \cup {Pos(m) : m \in AnchorMags(pw)}

IntDeltas == {Pos(NatBits(k)) : k \in 0..Near} \cup {Neg(NatBits(k)) : k \in 1..Near}

FracDeltas ==
    {Fin(n, Shl(NatBits(k), -FracBits)) : k \in 0..(2^FracBits), n \in BOOLEAN}

IntInputs(t, pw) ==
    {v \in {ExactAdd(a, dl) : a \in Anchors(pw), dl \in IntDeltas} :
        InIntRange(v, t, pw)}

FloatNear(f, pw) ==
    {RoundFloat(e.neg, e.mag, f) :
        e \in {ExactAdd(a, dl) : a \in Anchors(pw), dl \in FracDeltas}}

FloatInputs(f, pw) ==
    {NaN, PosInf, NegInf, NegZero}
    \cup FloatNear(f, pw)
    \cup {StepAway(RoundFloat(a.neg, a.mag, f), f) : a \in Anchors(pw) \ {Zero}}

Inputs(t, pw) == IF t \in IntTypes THEN IntInputs(t, pw) ELSE FloatInputs(t, pw)

(***************************************************************************)
(* The state machine: a caller holds a value of src_ty, converts it, and   *)
(* may post-process the result.                                            *)
(***************************************************************************)
Init ==
    /\ ptr_width \in PointerWidths
    /\ src_ty \in Types
    /\ input \in Inputs(src_ty, ptr_width)
    /\ dst_ty = "none"
    /\ pc = "start"
    /\ op = "none"
    /\ scheme = "none"
    /\ conv = NoResult
    /\ res = NoResult
    /\ sat = NoResult
    /\ wide = NoResult
    /\ out = NoPayload
    /\ limits = <<>>

\* Dst::value_from(input)
ValueFrom ==
    /\ pc = "start"
    /\ \E d \in Types :
        /\ HasValueFrom(src_ty, d, ptr_width)
        /\ dst_ty' = d
        /\ conv' = value_from(src_ty, d, input, ptr_width)
    /\ res' = conv'
    /\ op' = "value_from"
    /\ pc' = "converted"
    /\ UNCHANGED <<ptr_width, src_ty, input, scheme, sat, wide, out, limits>>

\* <Dst as ApproxFrom<Src, Scheme>>::approx_from(input)
ApproxFrom ==
    /\ pc = "start"
    /\ \E d \in Types, sch \in Schemes :
        /\ HasApproxFrom(src_ty, d, sch, ptr_width)
        /\ dst_ty' = d
        /\ scheme' = sch
        /\ conv' \in approx_from(src_ty, d, sch, input, ptr_width)
    /\ res' = conv'
    /\ op' = "approx_from"
    /\ pc' = "converted"
    /\ UNCHANGED <<ptr_width, src_ty, input, sat, wide, out, limits>>

\* result.map_err(Into::<RangeErrorKind>::into)
MapErrRangeErrorKind ==
    /\ pc = "converted"
    /\ res.ety \in {"NegOverflow", "PosOverflow", "RangeError"}
    /\ res' = into_RangeErrorKind(res)
    /\ pc' = "mapped"
    /\ UNCHANGED <<ptr_width, src_ty, dst_ty, input, op, scheme, conv, sat, wide, out, limits>>

\* result.saturate()
Saturate ==
    /\ pc \in {"converted", "mapped"}
    /\ dst_ty \in IntTypes
    /\ HasSaturate(res.ety)
    /\ sat' = saturate(res, dst_ty, ptr_width)
    /\ pc' = "saturated"
    /\ UNCHANGED <<ptr_width, src_ty, dst_ty, input, op, scheme, conv, res, wide, out, limits>>

\* the result a post-processing call receives
Current == IF pc = "saturated" THEN sat ELSE res

\* after saturate() a result is either a Result<T, NoError>, which only
\* unwrap_ok() takes further, or a Result<T, Unrepresentable<U>>
Residual == pc = "saturated" /\ sat.ety = "Unrepresentable"

\* the result the last post-processing call received
Received == IF sat.tag # "none" THEN sat ELSE res

\* result.map_err(Into::<to>::into) for a wider error type
MapErrInto ==
    /\ pc \in {"converted", "mapped"} \/ Residual
    /\ \E to \in {"RangeError", "FloatError", "GeneralError", "GeneralErrorKind"} :
        /\ <<Current.ety, to>> \in FromImpls
        /\ wide' = map_err_into(to, Current)
    /\ pc' = "widened"
    /\ UNCHANGED <<ptr_width, src_ty, dst_ty, input, op, scheme, conv, res, sat, out, limits>>

\* result.unwrap_ok()
UnwrapOk ==
    /\ pc \in {"converted", "saturated"}
    /\ Current.ety = "NoError"
    /\ out' = unwrap_ok(Current)
    /\ pc' = "unwrap_ok"
    /\ UNCHANGED <<ptr_width, src_ty, dst_ty, input, op, scheme, conv, res, sat, wide, limits>>

\* result.unwrap_or_inf()
UnwrapOrInf ==
    /\ pc \in {"converted", "mapped"}
    /\ dst_ty \in FloatTypes
    /\ res.ety \in IntoRangeErrorKind
    /\ out' = unwrap_or_inf(res, dst_ty)
    /\ pc' = "unwrap_or_inf"
    /\ UNCHANGED <<ptr_width, src_ty, dst_ty, input, op, scheme, conv, res, sat, wide, limits>>

\* result.unwrap_or_invalid()
UnwrapOrInvalid ==
    /\ pc = "converted" \/ Residual
    /\ out' = unwrap_or_invalid(Current, dst_ty, ptr_width)
    /\ pc' = "unwrap_or_invalid"
    /\ UNCHANGED <<ptr_width, src_ty, dst_ty, input, op, scheme, conv, res, sat, wide, limits>>

\* result.unwrap_or_saturate()
UnwrapOrSaturate ==
    /\ pc \in {"converted", "mapped"}
    /\ dst_ty \in IntTypes
    /\ res.ety \in IntoRangeErrorKind
    /\ out' = unwrap_or_saturate(res, dst_ty, ptr_width)
    /\ pc' = "unwrap_or_saturate"
    /\ UNCHANGED <<ptr_width, src_ty, dst_ty, input, op, scheme, conv, res, sat, wide, limits>>

Next ==
    \/ ValueFrom \/ ApproxFrom \/ MapErrRangeErrorKind \/ Saturate
    \/ MapErrInto \/ UnwrapOk \/ UnwrapOrInf \/ UnwrapOrInvalid \/ UnwrapOrSaturate

Spec == Init /\ [][Next]_vars

\* the bounds a rule macro is instantiated with outside the crate's own
\* tables
SyntheticBounds == {Neg(NatBits(5)), Pos(NatBits(5))}

\* impl_float2int_round! / impl_float2int_trunc_large! / impl_float2int_trunc!
\* instantiated with [$min, $max] and called on the input
InstantiateFloat2Int ==
    /\ pc = "start"
    /\ src_ty \in FloatTypes
    /\ \E d \in IntTypes, lo \in SyntheticBounds, hi \in SyntheticBounds :
        /\ dst_ty' = d
        /\ limits' = <<lo, hi>>
        /\ \/ \E cv \in {"round", "floor", "ceil"} :
                /\ op' = "impl_float2int_round"
                /\ scheme' = cv
                /\ conv' \in impl_float2int_round(src_ty, d, lo, hi, cv, input, ptr_width)
           \/ /\ op' = "impl_float2int_trunc_large"
              /\ scheme' = "none"
              /\ conv' \in impl_float2int_trunc_large(src_ty, d, lo, hi, input, ptr_width)
           \/ /\ op' = "impl_float2int_trunc"
              /\ scheme' = "none"
              /\ conv' \in impl_float2int_trunc(src_ty, d, lo, hi, input, ptr_width)
    /\ res' = conv'
    /\ pc' = "instantiated"
    /\ UNCHANGED <<ptr_width, src_ty, input, sat, wide, out>>

\* the nf [+- $bound] arm of num_conv! instantiated with a bound and called
\* on the input
InstantiateNf ==
    /\ pc = "start"
    /\ src_ty \in SignedTypes
    /\ \E d \in FloatTypes, bound \in SyntheticBounds :
        /\ dst_ty' = d
        /\ limits' = <<bound>>
        /\ conv' = value_from_nf_pm(src_ty, d, bound, input, ptr_width)
    /\ op' = "nf"
    /\ res' = conv'
    /\ pc' = "instantiated"
    /\ UNCHANGED <<ptr_width, src_ty, input, scheme, sat, wide, out>>

Instantiations == InstantiateFloat2Int \/ InstantiateNf

MacroSpec == Init /\ [][Instantiations]_vars

\* the conversions and the calls that convert their errors
ErrorCalls ==
    \/ ValueFrom \/ ApproxFrom \/ MapErrRangeErrorKind \/ Saturate \/ MapErrInto

ErrorSpec == Init /\ [][ErrorCalls]_vars

\* the conversion calls alone, for properties of the conversion results
Conversions == ValueFrom \/ ApproxFrom

ConvSpec == Init /\ [][Conversions]_vars

\* v is a value of the type t
IsValueOf(v, t, pw) ==
    IF t \in IntTypes
    THEN v.cls = "fin" /\ ~HasFrac(v.mag) /\ InIntRange(v, t, pw) /\ v # NegZero
    ELSE IsFloatOf(v, t)

TypeOK ==
    /\ ptr_width \in PointerWidths
    /\ src_ty \in Types
    /\ dst_ty \in Types \cup {"none"}
    /\ pc \in {"start", "converted", "mapped", "saturated", "widened", "unwrap_ok",
              "unwrap_or_inf", "unwrap_or_invalid", "unwrap_or_saturate",
              "instantiated"}
    /\ limits \in {<<>>} \cup {<<b>> : b \in SyntheticBounds}
                \cup (SyntheticBounds \X SyntheticBounds)
    /\ IsValueOf(input, src_ty, ptr_width)
    /\ conv.tag \in {"none", "Ok", "Err"}
    /\ conv.tag = "Ok" => IsValueOf(conv.val, dst_ty, ptr_width)
    /\ (pc = "saturated" /\ sat.tag = "Ok") => IsValueOf(sat.val, dst_ty, ptr_width)
    /\ wide.tag \in {"none", "Ok", "Err", "panic"}
    /\ out # NoPayload => IsValueOf(out, dst_ty, ptr_width)

(***************************************************************************)
(* Properties.                                                             *)
(***************************************************************************)
IsConverted == pc # "start"

IntToInt == src_ty \in IntTypes /\ dst_ty \in IntTypes

FloatToInt == src_ty \in FloatTypes /\ dst_ty \in IntTypes

\* C1: value_from between integer types returns Ok(x) exactly when x lies
\* within the destination's [MIN, MAX], NegOverflow when x is below MIN and
\* PosOverflow when x is above MAX.
C1_IntValueFromRange ==
    (op = "value_from" /\ IntToInt) =>
        /\ InIntRange(input, dst_ty, ptr_width) =>
              conv.tag = "Ok" /\ conv.val = input
        /\ Lt(input, IntMIN(dst_ty, ptr_width)) =>
              conv.tag = "Err" /\ conv.kind = "NegOverflow"
        /\ Gt(input, IntMAX(dst_ty, ptr_width)) =>
              conv.tag = "Err" /\ conv.kind = "PosOverflow"

C1_Witness ==
    /\ op = "value_from" /\ IntToInt
    /\ Lt(input, IntMIN(dst_ty, ptr_width))
    /\ src_ty = "i64" /\ dst_ty = "i32"
    /\ conv.tag = "Err"

\* C2: a NaN input to a float -> integer conversion yields
\* Err(FloatError::NotANumber(input)) under every scheme.
C2_NaNIsNotANumber ==
    (op = "approx_from" /\ FloatToInt /\ is_nan(input)) =>
        conv = Err("FloatError", "NotANumber", input)

C2_Witness ==
    /\ op = "approx_from" /\ FloatToInt /\ is_nan(input)
    /\ scheme = "RoundToNearest"
    /\ conv.kind = "NotANumber"

\* C3: every failed conversion carries the caller's original input as the
\* payload of its error, never the rounded or cast value.
C3_ErrPayloadIsInput ==
    (IsConverted /\ conv.tag = "Err") => conv.val = input

\* 255.5f32 -> u8 under RoundToNearest
C3_Witness ==
    /\ op = "approx_from" /\ src_ty = "f32" /\ dst_ty = "u8"
    /\ scheme = "RoundToNearest"
    /\ input = Pos({7, 6, 5, 4, 3, 2, 1, 0, -1})
    /\ conv.tag = "Err" /\ conv.kind = "PosOverflow"

IsInteger(v) == v.cls = "fin" /\ ~HasFrac(v.mag)

Half == Pos({-1})

Abs(v) == [v EXCEPT !.neg = FALSE]

\* r is x rounded as the scheme sch prescribes
RoundedAs(sch, x, r) ==
    IF x.cls = "inf" THEN r = x
    ELSE /\ IsInteger(r)
         /\ CASE sch = "RoundToNegInf" -> Le(r, x) /\ Lt(x, ExactAdd(r, One))
              [] sch = "RoundToPosInf" -> Lt(ExactSub(r, One), x) /\ Le(x, r)
              [] sch = "RoundToNearest" ->
                    /\ Le(Abs(ExactSub(x, r)), Half)
                    /\ NumEq(Abs(ExactSub(x, r)), Half) => Gt(Abs(r), Abs(x))

SchemeRound(sch, x) ==
    CASE sch = "RoundToNegInf" -> floor(x)
      [] sch = "RoundToPosInf" -> ceil(x)
      [] sch = "RoundToNearest" -> round(x)

RoundingSchemes == {"RoundToNearest", "RoundToNegInf", "RoundToPosInf"}

\* C4: under RoundToNearest, RoundToNegInf and RoundToPosInf a non-NaN
\* float x converts to Ok(r) exactly when the rounded value r lies within
\* the destination's [MIN, MAX], fails with NegOverflow(x) when r is
\* below MIN and with PosOverflow(x) when r is above MAX.
C4_RoundThenBound ==
    (op = "approx_from" /\ FloatToInt /\ scheme \in RoundingSchemes
        /\ ~is_nan(input)) =>
        LET r == SchemeRound(scheme, input)
        IN  /\ RoundedAs(scheme, input, r)
            /\ InIntRange(r, dst_ty, ptr_width) =>
                  conv.tag = "Ok" /\ NumEq(conv.val, r)
            /\ Lt(r, IntMIN(dst_ty, ptr_width)) =>
                  conv = Err("FloatError", "NegOverflow", input)
            /\ Gt(r, IntMAX(dst_ty, ptr_width)) =>
                  conv = Err("FloatError", "PosOverflow", input)

\* 255.25f32 -> u8 under RoundToNearest: the raw input exceeds u8::MAX, the
\* rounded value does not
C4_Witness ==
    /\ op = "approx_from" /\ src_ty = "f32" /\ dst_ty = "u8"
    /\ scheme = "RoundToNearest"
    /\ input = Pos({7, 6, 5, 4, 3, 2, 1, 0, -2})
    /\ conv.tag = "Ok" /\ conv.val = IntMAX("u8", ptr_width)

\* C5: under the default scheme every non-NaN float whose truncation toward
\* zero lies within the destination's [MIN, MAX] converts to Ok(trunc(x)),
\* and every other non-NaN float fails.
C5_DefaultTruncates ==
    (op = "approx_from" /\ FloatToInt /\ scheme = "DefaultApprox"
        /\ ~is_nan(input)) =>
        IF InIntRange(trunc(input), dst_ty, ptr_width)
        THEN conv.tag = "Ok" /\ NumEq(conv.val, trunc(input))
        ELSE conv.tag = "Err"

\* -0.25f32 -> u32 under the default scheme is rejected although it
\* truncates to 0
C5_Rejected ==
    /\ op = "approx_from" /\ src_ty = "f32" /\ dst_ty = "u32"
    /\ scheme = "DefaultApprox"
    /\ input = Fin(TRUE, {-2})
    /\ conv.tag = "Err"

\* the stored boundary constants with their float and integer types
BoundaryConstants == {
    <<"f32", "i32", MIN_F32_I32>>, <<"f32", "i32", MAX_F32_I32>>,
    <<"f32", "i64", MIN_F32_I64>>, <<"f32", "i64", MAX_F32_I64>>,
    <<"f32", "u32", MAX_F32_U32>>, <<"f32", "u64", MAX_F32_U64>>,
    <<"f64", "i64", MIN_F64_I64>>, <<"f64", "i64", MAX_F64_I64>>,
    <<"f64", "u64", MAX_F64_U64>>
}

\* each constant with the next float further from zero
BoundarySteps == {<<b[1], b[2], b[3], StepAway(b[3], b[1])>> : b \in BoundaryConstants}

\* C6: each stored boundary constant converts to its integer type, the next
\* float further from zero does not, and that next float lies outside the
\* integer type's range.
C6_BoundaryExact ==
    \A b \in BoundarySteps :
        (op = "approx_from" /\ src_ty = b[1] /\ dst_ty = b[2]) =>
            /\ input = b[3] =>
                  /\ conv.tag = "Ok"
                  /\ conv.val = IntOf(b[3])
                  /\ InIntRange(conv.val, dst_ty, ptr_width)
            /\ input = b[4] =>
                  /\ conv.tag = "Err"
                  /\ ~InIntRange(IntOf(input), dst_ty, ptr_width)

\* the float after MAX_F32_I64 is offered to f32 -> i64 and refused
C6_Witness ==
    /\ op = "approx_from" /\ src_ty = "f32" /\ dst_ty = "i64"
    /\ scheme = "DefaultApprox"
    /\ input = StepAway(MAX_F32_I64, "f32")
    /\ input = Pos({63})
    /\ conv.tag = "Err" /\ conv.kind = "PosOverflow"

\* a and b differ by a multiple of 2^w
Congruent(a, b, w) == \A k \in ExactSub(a, b).mag : k >= w

\* C7: between integer types the Wrapping scheme never fails and returns
\* the value of the destination type congruent to the input modulo 2^bits.
C7_WrappingIsModular ==
    (op = "approx_from" /\ scheme = "Wrapping" /\ IntToInt) =>
        /\ \A b \in IntTypes : HasApproxFrom(src_ty, b, "Wrapping", ptr_width)
        /\ conv.tag = "Ok"
        /\ InIntRange(conv.val, dst_ty, ptr_width)
        /\ Congruent(conv.val, input, BITS(dst_ty, ptr_width))

\* 400u16 -> 144u8
C7_Witness ==
    /\ op = "approx_from" /\ scheme = "Wrapping"
    /\ src_ty = "u16" /\ dst_ty = "u8"
    /\ input = Pos(NatBits(400))
    /\ conv = Ok("NoError", Pos(NatBits(144)))

\* the integer -> float pairs whose destination cannot hold every source value
InexactPair(s, d, pw) ==
    \/ d = "f32" /\ s \in {"i32", "i64", "isize", "u32", "u64", "usize"}
    \/ d = "f64" /\ s \in {"i64", "u64"}
    \/ d = "f64" /\ s \in {"isize", "usize"} /\ pw = 64

\* 2^24 for f32, 2^53 for f64
ExactBound(d) == IF d = "f32" THEN Pos({24}) ELSE Pos({53})

\* C8: value_from from an integer to a float that cannot hold the whole
\* integer range succeeds exactly when |x| <= 2^24 (f32) or 2^53 (f64),
\* fails with NegOverflow(x) below and PosOverflow(x) above, and a
\* successful result equals x.
C8_IntToFloatExact ==
    (op = "value_from" /\ InexactPair(src_ty, dst_ty, ptr_width)) =>
        /\ Le(Abs(input), ExactBound(dst_ty)) =>
              conv.tag = "Ok" /\ conv.val = input
        /\ Lt(input, Negate(ExactBound(dst_ty))) =>
              conv.tag = "Err" /\ conv.kind = "NegOverflow" /\ conv.val = input
        /\ Gt(input, ExactBound(dst_ty)) =>
              conv.tag = "Err" /\ conv.kind = "PosOverflow" /\ conv.val = input

\* 16_777_217i32 -> f32
C8_Witness ==
    /\ op = "value_from" /\ src_ty = "i32" /\ dst_ty = "f32"
    /\ input = Pos({24, 0})
    /\ conv = Err("RangeError", "PosOverflow", input)

RangeIncludes(b, a, pw) ==
    /\ Le(IntMIN(b, pw), IntMIN(a, pw))
    /\ Le(IntMAX(a, pw), IntMAX(b, pw))

\* C9: when the destination integer type's range includes the source's,
\* value_from succeeds on every value and value_from back recovers it.
C9_WideningRoundTrips ==
    (op = "value_from" /\ IntToInt /\ RangeIncludes(dst_ty, src_ty, ptr_width)) =>
        /\ \A b \in IntTypes :
              RangeIncludes(b, src_ty, ptr_width) => HasValueFrom(src_ty, b, ptr_width)
        /\ conv.tag = "Ok"
        /\ HasValueFrom(dst_ty, src_ty, ptr_width)
        /\ LET back == value_from(dst_ty, src_ty, conv.val, ptr_width)
           IN  back.tag = "Ok" /\ back.val = input

C9_Witness ==
    /\ op = "value_from" /\ src_ty = "i8" /\ dst_ty = "i64"
    /\ input = IntMIN("i8", ptr_width)
    /\ conv.tag = "Ok"

\* C10: saturate keeps Ok(v), turns a NegOverflow into Ok(destination
\* minimum) and a PosOverflow into Ok(destination maximum), for RangeError,
\* RangeErrorKind and FloatError results.
C10_SaturateToBounds ==
    pc = "saturated" =>
        /\ res.tag = "Ok" => sat.tag = "Ok" /\ sat.val = res.val
        /\ (res.tag = "Err" /\ res.kind = "NegOverflow") =>
              sat.tag = "Ok" /\ sat.val = IntMIN(dst_ty, ptr_width)
        /\ (res.tag = "Err" /\ res.kind = "PosOverflow") =>
              sat.tag = "Ok" /\ sat.val = IntMAX(dst_ty, ptr_width)
        /\ (conv.tag = "Err" /\ conv.kind = "NegOverflow") =>
              sat.tag = "Ok" /\ sat.val = IntMIN(dst_ty, ptr_width)
        /\ (conv.tag = "Err" /\ conv.kind = "PosOverflow") =>
              sat.tag = "Ok" /\ sat.val = IntMAX(dst_ty, ptr_width)
        /\ (op = "value_from" /\ IntToInt /\ Lt(input, IntMIN(dst_ty, ptr_width))) =>
              sat.val = IntMIN(dst_ty, ptr_width)
        /\ (op = "value_from" /\ IntToInt /\ Gt(input, IntMAX(dst_ty, ptr_width))) =>
              sat.val = IntMAX(dst_ty, ptr_width)

\* saturate(value_from::<u8>(-5i32)) = Ok(0)
C10_Witness ==
    /\ pc = "saturated" /\ op = "value_from"
    /\ src_ty = "i32" /\ dst_ty = "u8"
    /\ input = Neg(NatBits(5))
    /\ res = Err("RangeError", "NegOverflow", input)
    /\ sat = Ok("NoError", Zero)

\* C11: saturate after a float -> integer conversion of a NaN leaves an
\* error: never Ok, of the one kind that remains after saturation
\* (Unrepresentable, which only a NaN produces), carrying the NaN input.
C11_SaturateKeepsNaN ==
    (pc = "saturated" /\ op = "approx_from" /\ FloatToInt) =>
        /\ is_nan(input) =>
              /\ sat = Err("Unrepresentable", "Unrepresentable", input)
              /\ is_nan(sat.val)
        /\ sat.tag = "Err" => is_nan(input)

\* saturate(approx_from::<u8>(f32::NAN))
C11_Witness ==
    /\ pc = "saturated" /\ op = "approx_from"
    /\ src_ty = "f32" /\ dst_ty = "u8" /\ scheme = "DefaultApprox"
    /\ is_nan(input)
    /\ res = Err("FloatError", "NotANumber", input)
    /\ sat.tag = "Err"

(***************************************************************************)
(* C12: unwrap_or_saturate on results whose error is overflow-only.        *)
(***************************************************************************)
\* C12 as stated: unwrap_or_saturate returns v for Ok(v), the destination
\* minimum for a negative overflow and the destination maximum for a positive
\* overflow, and for every result it takes (error type NegOverflow,
\* PosOverflow, RangeError, RangeErrorKind or NoError) saturate() is defined
\* and saturate() followed by unwrap_ok() gives the same value.
C12_EveryResultSaturates ==
    (pc = "unwrap_or_saturate") =>
        /\ res.ety \in IntoRangeErrorKind
        /\ out # PanicValue
        /\ res.tag = "Ok" => out = res.val
        /\ (res.tag = "Err" /\ res.kind = "NegOverflow") =>
                out = IntMIN(dst_ty, ptr_width)
        /\ (res.tag = "Err" /\ res.kind = "PosOverflow") =>
                out = IntMAX(dst_ty, ptr_width)
        /\ HasSaturate(res.ety)
        /\ unwrap_ok(saturate(res, dst_ty, ptr_width)) = out

\* C12, amended: unwrap_or_saturate returns v for Ok(v), the destination
\* minimum for a negative overflow and the destination maximum for a positive
\* overflow, never panics, and where saturate() is implemented for the
\* result's error type (RangeError, RangeErrorKind) it equals saturate()
\* followed by unwrap_ok().
C12_UnwrapOrSaturate ==
    (pc = "unwrap_or_saturate") =>
        /\ res.ety \in IntoRangeErrorKind
        /\ out # PanicValue
        /\ res.tag = "Ok" => out = res.val
        /\ (res.tag = "Err" /\ res.kind = "NegOverflow") =>
                out = IntMIN(dst_ty, ptr_width)
        /\ (res.tag = "Err" /\ res.kind = "PosOverflow") =>
                out = IntMAX(dst_ty, ptr_width)
        /\ HasSaturate(res.ety) =>
                unwrap_ok(saturate(res, dst_ty, ptr_width)) = out

\* u8::value_from(-1i16).unwrap_or_saturate() == 0u8 (crate docs)
C12_Witness ==
    /\ pc = "unwrap_or_saturate" /\ op = "value_from"
    /\ src_ty = "i16" /\ dst_ty = "u8"
    /\ res = Err("RangeError", "NegOverflow", Neg(NatBits(1)))
    /\ out = Zero
    /\ unwrap_ok(saturate(res, dst_ty, ptr_width)) = Zero

(***************************************************************************)
(* C13: unwrap_or_invalid.                                                 *)
(***************************************************************************)
\* C13: unwrap_or_invalid returns v for Ok(v) and, for every Err, the invalid
\* sentinel of the destination type, which is a function of the destination
\* type alone: the error's kind and payload do not enter the value.
C13_UnwrapOrInvalid ==
    (pc = "unwrap_or_invalid") =>
        /\ Received.tag \in {"Ok", "Err"}
        /\ Received.tag = "Ok" => out = Received.val
        /\ Received.tag = "Err" =>
            /\ Received.kind \in {"NegOverflow", "PosOverflow", "NotANumber",
                                  "Unrepresentable"}
            /\ out = invalid_sentinel(dst_ty, ptr_width)
            /\ IsValueOf(out, dst_ty, ptr_width)

\* u8::value_from(-1i16) is a negative overflow and unwraps to the sentinel
\* of u8, not to the bound on the payload's side
C13_Witness ==
    /\ pc = "unwrap_or_invalid" /\ src_ty = "i16" /\ dst_ty = "u8"
    /\ Received.tag = "Err" /\ Received.kind = "NegOverflow"
    /\ Received.val = Neg(NatBits(1))
    /\ out = invalid_sentinel("u8", ptr_width)
    /\ out # IntMIN("u8", ptr_width)

(***************************************************************************)
(* C14: unwrap_or_inf.                                                     *)
(***************************************************************************)
\* C14: unwrap_or_inf returns v for Ok(v), negative infinity for a negative
\* overflow and positive infinity for a positive overflow: the sign of the
\* infinity is the direction of the overflow.
C14_UnwrapOrInf ==
    (pc = "unwrap_or_inf") =>
        /\ res.tag \in {"Ok", "Err"}
        /\ res.tag = "Ok" => out = res.val
        /\ res.tag = "Err" =>
            /\ res.kind \in {"NegOverflow", "PosOverflow"}
            /\ out.cls = "inf"
            /\ out.neg <=> (res.kind = "NegOverflow")
            /\ out.neg <=> conv.val.neg

\* f32::value_from(16_777_217i32) is a positive overflow and unwraps to
\* positive infinity
C14_Witness ==
    /\ pc = "unwrap_or_inf" /\ op = "value_from"
    /\ src_ty = "i32" /\ dst_ty = "f32"
    /\ res = Err("RangeError", "PosOverflow", Pos({0, 24}))
    /\ out = PosInf

(***************************************************************************)
(* C15: the widenings between the payload-carrying error types.            *)
(***************************************************************************)
\* the widenings of C15: <<narrower, wider>>
Widenings ==
    ({"NegOverflow", "PosOverflow"} \X {"RangeError", "FloatError", "GeneralError"})
    \cup ({"RangeError"} \X {"FloatError", "GeneralError"})
    \cup {<<"FloatError", "GeneralError">>, <<"Unrepresentable", "GeneralError">>}

\* C15: every widening is a From implementation and is lossless: the widened
\* error carries the same payload, a negative overflow stays a negative
\* overflow and a positive overflow stays a positive overflow, and no other
\* error of the narrower type widens to the same error.
C15_WideningLossless ==
    /\ Widenings \subseteq FromImpls
    /\ (pc = "widened" /\ <<Received.ety, wide.ety>> \in Widenings) =>
        /\ wide.tag = Received.tag
        /\ wide.val = Received.val
        /\ Received.tag = "Err" =>
            /\ wide.val = conv.val
            /\ Received.kind = "NegOverflow" => wide.kind = "NegOverflow"
            /\ Received.kind = "PosOverflow" => wide.kind = "PosOverflow"
            /\ wide.kind \in Variants(wide.ety)
            /\ \A k \in Variants(Received.ety), v \in {Received.val, Zero} :
                    LET e == Err(Received.ety, k, v)
                    IN  e # Received => map_err_into(wide.ety, e) # wide

\* a not-a-number FloatError widened into GeneralError keeps the NaN payload
\* and is told apart from both overflows
C15_Witness ==
    /\ pc = "widened" /\ FloatToInt /\ is_nan(input)
    /\ Received = Err("FloatError", "NotANumber", input)
    /\ wide = Err("GeneralError", "Unrepresentable", input)

(***************************************************************************)
(* C16: GeneralErrorKind.                                                  *)
(***************************************************************************)
\* the classification an error keeps in GeneralErrorKind
Classification(kind) ==
    IF kind \in {"NotANumber", "Unrepresentable"} THEN "Unrepresentable" ELSE kind

\* r converted into GeneralErrorKind keeps its classification and drops its
\* payload
KeepsClassification(r, k) ==
    /\ k.ety = "GeneralErrorKind"
    /\ k.tag = r.tag
    /\ r.tag = "Ok" => k.val = r.val
    /\ r.tag = "Err" =>
        /\ k.kind = Classification(r.kind)
        /\ k.kind \in Variants("GeneralErrorKind")
        /\ k.val = NoPayload

\* C16: every error type converts into GeneralErrorKind, and the conversion
\* keeps the classification (negative overflow, positive overflow, and
\* not-a-number / unrepresentable as Unrepresentable) and drops only the
\* payload. Checked on every result converted directly, and on every
\* GeneralError a widening produced.
C16_GeneralErrorKind ==
    /\ \A e \in {"NegOverflow", "PosOverflow", "Unrepresentable", "RangeError",
                  "RangeErrorKind", "FloatError", "GeneralError"} :
            <<e, "GeneralErrorKind">> \in FromImpls
    /\ (pc = "widened" /\ wide.ety = "GeneralErrorKind") =>
            KeepsClassification(Received, wide)
    /\ (pc = "widened" /\ wide.ety = "GeneralError") =>
            KeepsClassification(wide, into_GeneralErrorKind(wide))

\* a not-a-number FloatError becomes GeneralErrorKind::Unrepresentable
C16_Witness ==
    /\ pc = "widened" /\ FloatToInt /\ is_nan(input)
    /\ Received = Err("FloatError", "NotANumber", input)
    /\ wide = Err("GeneralErrorKind", "Unrepresentable", NoPayload)

(***************************************************************************)
(* C17: the declared error type of a rule is the narrowest one.            *)
(***************************************************************************)
\* the inputs of every source type, per pointer width
AllInputs == [t \in Types, pw \in PointerWidths |-> Inputs(t, pw)]

\* the results of the rule the caller used, over every input of the source
\* type
RuleResults ==
    UNION {IF op = "value_from"
           THEN {value_from(src_ty, dst_ty, x, ptr_width)}
           ELSE approx_from(src_ty, dst_ty, scheme, x, ptr_width) :
           x \in AllInputs[src_ty, ptr_width]}

\* C17: a rule's results all carry its declared error type; an error is one
\* of that type's variants; every variant of the declared type is produced by
\* some input of the rule (so a NegOverflow rule has a failing negative input
\* and no positive overflow, a RangeError rule fails on each side, a
\* FloatError rule produces all three kinds); and a rule declared with
\* NoError succeeds on every input.
C17_NarrowestErrorType ==
    (pc = "converted") =>
        /\ conv.tag = "Err" => conv.kind \in Variants(conv.ety)
        /\ conv.ety = "NoError" => conv.tag = "Ok"
        /\ input = Zero =>
            /\ \A r \in RuleResults : r.ety = conv.ety
            /\ {r.kind : r \in {q \in RuleResults : q.tag = "Err"}}
                    = Variants(conv.ety)

\* ApproxFrom<f64> for f32 declares RangeError and rejects on each side
C17_Witness ==
    /\ pc = "converted" /\ op = "approx_from" /\ input = Zero
    /\ src_ty = "f64" /\ dst_ty = "f32" /\ conv.ety = "RangeError"
    /\ \E r \in RuleResults : r.tag = "Err" /\ r.kind = "NegOverflow"
    /\ \E r \in RuleResults : r.tag = "Err" /\ r.kind = "PosOverflow"

(***************************************************************************)
(* C18: where the Wrapping scheme is accepted.                             *)
(***************************************************************************)
\* C18: the Wrapping scheme is accepted only between integer types: no
\* ApproxFrom implementation with a float source or a float destination takes
\* Wrapping, so no call converts to or from f32 / f64 under it.
C18_WrappingIntegersOnly ==
    (op = "approx_from" /\ scheme = "Wrapping") =>
        /\ HasApproxFrom(src_ty, dst_ty, "Wrapping", ptr_width)
        /\ IntToInt

\* <f64 as ApproxFrom<f32, Wrapping>>::approx_from(x) exists and returns
\* Ok(x as f64)
C18_WrappingIntoFloat ==
    /\ pc = "converted" /\ op = "approx_from" /\ scheme = "Wrapping"
    /\ src_ty = "f32" /\ dst_ty = "f64"
    /\ input = Fin(FALSE, {-2})
    /\ conv = Ok("NoError", input)

(***************************************************************************)
(* C19: the pointer-sized types follow the rules of the fixed-width type   *)
(* of the build's pointer width.                                           *)
(***************************************************************************)
PointerSized == {"isize", "usize"}

\* the fixed-width type a pointer-sized type coincides with in the build
Fixed(t, pw) ==
    CASE t = "isize" -> IF pw = 32 THEN "i32" ELSE "i64"
      [] t = "usize" -> IF pw = 32 THEN "u32" ELSE "u64"
      [] OTHER -> t

\* between types that stay distinct, a rule exists for a pointer-sized type
\* exactly when it exists for the fixed-width type
SameRulesExist ==
    \A pw \in PointerWidths, s \in Types, d \in Types :
        ((s \in PointerSized \/ d \in PointerSized)
            /\ Fixed(s, pw) # Fixed(d, pw)) =>
            /\ HasValueFrom(s, d, pw) <=> HasValueFrom(Fixed(s, pw), Fixed(d, pw), pw)
            /\ \A sch \in Schemes :
                    HasApproxFrom(s, d, sch, pw)
                        <=> HasApproxFrom(Fixed(s, pw), Fixed(d, pw), sch, pw)

\* C19: every conversion to or from isize / usize has a counterpart between
\* the fixed-width types of the build's pointer width (i64 / u64 on 64-bit,
\* i32 / u32 on 32-bit), and returns what the counterpart returns on the same
\* input: the same Ok value, or the same error type, kind and payload. This
\* covers the float boundary constants and the integer -> float bounds, which
\* decide the results near the bounds.
C19_PointerSizedAsFixed ==
    /\ SameRulesExist
    /\ (pc = "converted" /\ (src_ty \in PointerSized \/ dst_ty \in PointerSized)) =>
        LET s == Fixed(src_ty, ptr_width)
            d == Fixed(dst_ty, ptr_width)
        IN  /\ IsValueOf(input, s, ptr_width)
            /\ IF op = "value_from"
               THEN /\ HasValueFrom(s, d, ptr_width)
                    /\ conv = value_from(s, d, input, ptr_width)
               ELSE /\ HasApproxFrom(s, d, scheme, ptr_width)
                    /\ approx_from(src_ty, dst_ty, scheme, input, ptr_width)
                            = approx_from(s, d, scheme, input, ptr_width)

\* on a 32-bit build 2^31 as f32 overflows isize as it overflows i32
C19_Witness ==
    /\ pc = "converted" /\ op = "approx_from" /\ ptr_width = 32
    /\ src_ty = "f32" /\ dst_ty = "isize" /\ scheme = "RoundToNearest"
    /\ input = Pos({31})
    /\ conv = Err("FloatError", "PosOverflow", input)
    /\ conv \in approx_from("f32", "i32", scheme, input, 32)
    /\ conv \notin approx_from("f32", "i64", scheme, input, 32)

(***************************************************************************)
(* C20: nothing panics.                                                    *)
(***************************************************************************)
\* a result that is Ok or a classified Err, and not an Err of NoError
Returned(r) ==
    /\ r.tag \in {"Ok", "Err"}
    /\ r.tag = "Err" => (r.ety # "NoError" /\ r.kind \in Variants(r.ety))

\* C20: every conversion, saturate(), widening and unwrap_* call returns: a
\* conversion or widening gives Ok or a classified Err, a fallback gives a
\* value of the destination type, and no result declared with NoError is an
\* Err, so the unreachable!() branches of the NoError impls are never run.
C20_NoPanic ==
    /\ pc # "start" => (Returned(conv) /\ Returned(res))
    /\ sat.tag # "none" => Returned(sat)
    /\ pc = "widened" => Returned(wide)
    /\ wide.tag # "panic"
    /\ out # PanicValue
    /\ pc \in {"unwrap_ok", "unwrap_or_inf", "unwrap_or_invalid",
               "unwrap_or_saturate"} =>
            (out.cls \in {"fin", "inf", "nan"} /\ IsValueOf(out, dst_ty, ptr_width))

\* u16::value_from(255u8) is Ok under NoError, and widening it into
\* GeneralError goes through From<NoError> without reaching its match
C20_Witness ==
    /\ pc = "widened" /\ op = "value_from"
    /\ src_ty = "u8" /\ dst_ty = "u16" /\ input = Pos(NatBits(255))
    /\ res = Ok("NoError", input)
    /\ wide = Ok("GeneralError", input)

(***************************************************************************)
(* C21: ValueFrom is path-independent.                                     *)
(***************************************************************************)
\* C21: when A -> B succeeded on the input and B -> C succeeds on its result,
\* A -> C (where it exists) succeeds on the input with the same value; and
\* when C -> A succeeds as well, the cycle A -> B -> C -> A returns the input
\* exactly (C = A gives the cycles of length two).
C21_ValueFromPathIndependent ==
    (pc = "converted" /\ op = "value_from" /\ conv.tag = "Ok") =>
        \A c \in Types :
            HasValueFrom(dst_ty, c, ptr_width) =>
                LET bc == value_from(dst_ty, c, conv.val, ptr_width)
                IN  bc.tag = "Ok" =>
                    /\ HasValueFrom(src_ty, c, ptr_width) =>
                            LET ac == value_from(src_ty, c, input, ptr_width)
                            IN  ac.tag = "Ok" /\ ac.val = bc.val
                    /\ HasValueFrom(c, src_ty, ptr_width) =>
                            LET ca == value_from(c, src_ty, bc.val, ptr_width)
                            IN  ca.tag = "Ok" => ca.val = input

\* 16_777_216i32 -> f32 -> f64 gives what i32 -> f64 gives
C21_Witness ==
    /\ pc = "converted" /\ op = "value_from"
    /\ src_ty = "i32" /\ dst_ty = "f32" /\ input = Pos({24})
    /\ conv = Ok("RangeError", input)
    /\ value_from("f32", "f64", conv.val, ptr_width).val
            = value_from("i32", "f64", input, ptr_width).val
    /\ value_from("i32", "f64", input, ptr_width).tag = "Ok"

(***************************************************************************)
(* C22: the order of the checks.                                           *)
(***************************************************************************)
\* the value an instantiated rule compares with its bounds: the rounded value
\* in impl_float2int_round, the source elsewhere
Tested == IF op = "impl_float2int_round" THEN call(scheme, input) ELSE input

\* the lower and the upper bound of the instantiated rule
LowerBound == IF op = "nf" THEN Negate(limits[1]) ELSE limits[1]
UpperBound == IF op = "nf" THEN limits[1] ELSE limits[2]

\* the input fails the rule's lower test / upper test, taken alone
BelowMin ==
    IF op = "impl_float2int_trunc" THEN Le(Tested, LowerBound)
    ELSE Lt(Tested, LowerBound)
AboveMax ==
    IF op = "impl_float2int_trunc" THEN Ge(Tested, UpperBound)
    ELSE Gt(Tested, UpperBound)

\* C22: in a rule instantiated with any bounds, a NaN source is reported as
\* NotANumber whatever the bounds; otherwise the (rounded) value is tested
\* against the lower bound first and against the upper bound second, so an
\* input that fails both tests is reported as NegOverflow, one that fails only
\* the upper test as PosOverflow, and one that fails neither is accepted.
C22_CheckOrder ==
    (pc = "instantiated") =>
        IF is_nan(input)
        THEN conv = Err("FloatError", "NotANumber", input)
        ELSE /\ BelowMin => (conv.tag = "Err" /\ conv.kind = "NegOverflow")
             /\ (BelowMin /\ AboveMax) => conv.kind # "PosOverflow"
             /\ (~BelowMin /\ AboveMax) =>
                    (conv.tag = "Err" /\ conv.kind = "PosOverflow")
             /\ (~BelowMin /\ ~AboveMax) => conv.tag = "Ok"
             /\ conv.tag = "Err" => conv.val = input

\* 0.0 through a rounding rule instantiated with [5, -5] is below the minimum
\* and above the maximum, and is reported as NegOverflow
C22_Witness ==
    /\ pc = "instantiated" /\ op = "impl_float2int_round" /\ scheme = "round"
    /\ limits = <<Pos(NatBits(5)), Neg(NatBits(5))>>
    /\ input = Zero
    /\ BelowMin /\ AboveMax
    /\ conv = Err("FloatError", "NegOverflow", Zero)

(***************************************************************************)
(* C23: infinite sources of float -> integer conversions.                  *)
(***************************************************************************)
\* C23: for every float -> integer pair and every scheme, +infinity fails with
\* PosOverflow(+inf) and -infinity fails with NegOverflow(-inf); no outcome
\* of the call is Ok or NotANumber.
C23_InfinityOverflows ==
    (pc = "converted" /\ op = "approx_from" /\ FloatToInt /\ input.cls = "inf") =>
        /\ conv = Err("FloatError",
                      IF input.neg THEN "NegOverflow" ELSE "PosOverflow", input)
        /\ approx_from(src_ty, dst_ty, scheme, input, ptr_width) = {conv}

\* -inf as f32 -> u64 under the default scheme is a negative overflow
C23_Witness ==
    /\ pc = "converted" /\ op = "approx_from" /\ scheme = "DefaultApprox"
    /\ src_ty = "f32" /\ dst_ty = "u64" /\ input = NegInf
    /\ conv = Err("FloatError", "NegOverflow", NegInf)

(***************************************************************************)
(* C24: ApproxFrom<f64> for f32.                                           *)
(***************************************************************************)
\* C24: f64 -> f32 under the default scheme passes NaN and the infinities
\* through as Ok (NaN stays NaN, an infinity keeps its sign); a finite source
\* below f32::MIN is RangeError::NegOverflow(src), a finite source above
\* f32::MAX is RangeError::PosOverflow(src), and every other finite source is
\* Ok with a finite f32.
C24_F64ToF32 ==
    (pc = "converted" /\ op = "approx_from" /\ src_ty = "f64" /\ dst_ty = "f32") =>
        /\ scheme = "DefaultApprox"
        /\ IF ~is_finite(input) THEN conv = Ok("RangeError", input)
           ELSE IF Lt(input, F32_MIN)
           THEN conv = Err("RangeError", "NegOverflow", input)
           ELSE IF Gt(input, F32_MAX)
           THEN conv = Err("RangeError", "PosOverflow", input)
           ELSE /\ conv.tag = "Ok"
                /\ is_finite(conv.val)
                /\ IsValueOf(conv.val, "f32", ptr_width)

\* the f64 next above f32::MAX is finite and is a positive overflow
C24_Witness ==
    /\ pc = "converted" /\ op = "approx_from" /\ src_ty = "f64" /\ dst_ty = "f32"
    /\ input = StepAway(F32_MAX, "f64")
    /\ is_finite(input)
    /\ conv = Err("RangeError", "PosOverflow", input)

(***************************************************************************)
(* C25: DefaultApprox and RoundToZero on float -> integer.                 *)
(***************************************************************************)
\* C25: for every float -> integer pair and every input, NaN and the
\* infinities included, approx_from under DefaultApprox and under RoundToZero
\* have the same outcomes: the same Ok value, or the same error kind with the
\* same payload.
C25_DefaultIsRoundToZero ==
    (pc = "converted" /\ op = "approx_from" /\ FloatToInt
        /\ scheme \in {"DefaultApprox", "RoundToZero"}) =>
        /\ HasApproxFrom(src_ty, dst_ty, "DefaultApprox", ptr_width)
        /\ HasApproxFrom(src_ty, dst_ty, "RoundToZero", ptr_width)
        /\ LET other == IF scheme = "DefaultApprox" THEN "RoundToZero"
                         ELSE "DefaultApprox"
               outcomes == approx_from(src_ty, dst_ty, other, input, ptr_width)
           IN  /\ conv \in outcomes
               /\ outcomes = approx_from(src_ty, dst_ty, scheme, input, ptr_width)

\* 4294967040.0f32 (MAX_F32_U32) -> u32 is accepted under RoundToZero as it
\* is under DefaultApprox
C25_Witness ==
    /\ pc = "converted" /\ op = "approx_from" /\ scheme = "RoundToZero"
    /\ src_ty = "f32" /\ dst_ty = "u32" /\ input = MAX_F32_U32
    /\ conv = Ok("FloatError", input)
    /\ approx_from("f32", "u32", "DefaultApprox", input, ptr_width) = {conv}

(***************************************************************************)
(* C26: DefaultApprox on integer -> integer is value_from.                 *)
(***************************************************************************)
\* C26: for every integer -> integer pair and every input, approx_from under
\* DefaultApprox and value_from both exist and return the same outcome: Ok
\* with the same value, or the same error (type, kind and payload).
C26_DefaultApproxIsValueFrom ==
    (pc = "converted" /\ IntToInt) =>
        /\ op = "value_from" =>
            /\ HasApproxFrom(src_ty, dst_ty, "DefaultApprox", ptr_width)
            /\ approx_from(src_ty, dst_ty, "DefaultApprox", input, ptr_width) = {conv}
        /\ (op = "approx_from" /\ scheme = "DefaultApprox") =>
            /\ HasValueFrom(src_ty, dst_ty, ptr_width)
            /\ value_from(src_ty, dst_ty, input, ptr_width) = conv

\* 400u16 -> u8 under the default scheme fails as value_from does: it is
\* neither wrapped to 144 nor saturated to 255
C26_Witness ==
    /\ pc = "converted" /\ op = "approx_from" /\ scheme = "DefaultApprox"
    /\ src_ty = "u16" /\ dst_ty = "u8" /\ input = Pos(NatBits(400))
    /\ conv = Err("PosOverflow", "PosOverflow", input)
    /\ value_from("u16", "u8", input, ptr_width) = conv

(***************************************************************************)
(* C27: what reaches to_int_unchecked.                                     *)
(***************************************************************************)
\* the float a float -> integer rule hands to to_int_unchecked when it
\* accepts: the rounded value under the rounding schemes, the source under
\* DefaultApprox and RoundToZero
Handed ==
    CASE scheme = "RoundToNearest" -> round(input)
      [] scheme = "RoundToNegInf" -> floor(input)
      [] scheme = "RoundToPosInf" -> ceil(input)
      [] OTHER -> input

\* C27: whenever a float -> integer conversion returns Ok, the float handed to
\* to_int_unchecked is finite (so not NaN) and its truncation toward zero
\* lies within [dst::MIN, dst::MAX]; the cast then has one defined outcome,
\* that truncation.
C27_UncheckedCastInRange ==
    (pc = "converted" /\ op = "approx_from" /\ FloatToInt /\ conv.tag = "Ok") =>
        /\ is_finite(Handed)
        /\ InIntRange(trunc(Handed), dst_ty, ptr_width)
        /\ to_int_unchecked(Handed, dst_ty, ptr_width) = {conv.val}
        /\ NumEq(conv.val, trunc(Handed))

\* MAX_F64_I64 is accepted for i64 and its cast is defined
C27_Witness ==
    /\ pc = "converted" /\ op = "approx_from" /\ scheme = "RoundToPosInf"
    /\ src_ty = "f64" /\ dst_ty = "i64" /\ input = MAX_F64_I64
    /\ conv = Ok("FloatError", input)
    /\ Handed = input
    /\ InIntRange(input, "i64", ptr_width)

(***************************************************************************)
(* C28: RoundToZero against the directed schemes.                          *)
(***************************************************************************)
\* the directed scheme that rounds the input toward zero
TowardZero == IF Lt(input, Zero) THEN "RoundToPosInf" ELSE "RoundToNegInf"

\* the two results are the same Ok value or failures on the same side
SameOutcome(a, b) ==
    /\ a.tag = b.tag
    /\ a.kind = b.kind
    /\ a.tag = "Ok" => a.val = b.val

\* C28: for every float -> integer pair and every non-NaN input x, RoundToZero
\* returns the outcome of RoundToPosInf when x < 0 and of RoundToNegInf when
\* x >= 0: the same Ok value, or a failure on the same side.
C28_RoundToZeroBySign ==
    (pc = "converted" /\ op = "approx_from" /\ FloatToInt
        /\ scheme = "RoundToZero" /\ ~is_nan(input)) =>
        \A r \in approx_from(src_ty, dst_ty, TowardZero, input, ptr_width) :
            SameOutcome(conv, r)

\* -0.25f32 -> u32: RoundToZero rejects it as a negative overflow, while
\* RoundToPosInf rounds it to -0.0 and accepts it as 0
C28_Disagree ==
    /\ pc = "converted" /\ op = "approx_from" /\ scheme = "RoundToZero"
    /\ src_ty = "f32" /\ dst_ty = "u32" /\ input = Fin(TRUE, {-2})
    /\ conv = Err("FloatError", "NegOverflow", input)
    /\ approx_from("f32", "u32", "RoundToPosInf", input, ptr_width)
            = {Ok("FloatError", Zero)}

\* outside the sources in (-1, 0) converted to an unsigned destination with
\* explicit limits, RoundToZero does agree with the directed scheme
C28_AgreesElsewhere ==
    (pc = "converted" /\ op = "approx_from" /\ FloatToInt
        /\ scheme = "RoundToZero" /\ ~is_nan(input)
        /\ ~(lang_float_to_int(src_ty, dst_ty, ptr_width) # <<>>
              /\ dst_ty \in UnsignedTypes
              /\ Lt(input, Zero) /\ Gt(input, Neg({0})))) =>
        \A r \in approx_from(src_ty, dst_ty, TowardZero, input, ptr_width) :
            SameOutcome(conv, r)

(***************************************************************************)
(* C29: the outcome is monotone in the input.                              *)
(***************************************************************************)
\* for each input of a source type, the number of inputs below it and the
\* number of inputs numerically equal to it (itself, and the other zero)
InputRank ==
    [t \in Types, pw \in PointerWidths |->
        [x \in AllInputs[t, pw] |->
            <<Cardinality({y \in AllInputs[t, pw] : Lt(y, x)}),
              Cardinality({y \in AllInputs[t, pw] : y = x \/ NumEq(y, x)})>>]]

\* for each non-NaN input, the other inputs equal to it and the inputs next
\* above it: the pairs (x, y) with x <= y whose comparison decides the order
\* of all pairs
NextInputs ==
    [t \in Types, pw \in PointerWidths |->
        [x \in AllInputs[t, pw] |->
            IF is_nan(x) THEN {}
            ELSE LET rx == InputRank[t, pw][x]
                 IN  {y \in AllInputs[t, pw] \ {x} :
                        /\ ~is_nan(y)
                        /\ InputRank[t, pw][y][1] \in {rx[1], rx[1] + rx[2]}}]]

\* the side of an outcome: failures below, accepted inputs, failures above
Side(r) ==
    CASE r.tag = "Ok" -> 1
      [] r.kind = "NegOverflow" -> 0
      [] r.kind = "PosOverflow" -> 2

\* the outcomes of the caller's rule on x
Outcomes(x) ==
    IF op = "value_from" THEN {value_from(src_ty, dst_ty, x, ptr_width)}
    ELSE approx_from(src_ty, dst_ty, scheme, x, ptr_width)

\* the outcome on the input and the outcomes on the inputs next above it are
\* in order: the side does not go down, and neither does an accepted value
InOrder(ys) ==
    \A y \in ys : \A r \in Outcomes(y) :
        /\ Side(conv) <= Side(r)
        /\ (conv.tag = "Ok" /\ r.tag = "Ok") => Le(conv.val, r.val)

\* C29 as stated: for every conversion under a scheme other than Wrapping the
\* outcome is monotone in the input. Over the inputs in increasing order the
\* outcomes go from NegOverflow to Ok to PosOverflow and never back, so the
\* accepted inputs are one interval with the negative overflows below it and
\* the positive overflows above it, and the accepted values do not decrease.
C29_Monotone ==
    (pc = "converted" /\ scheme # "Wrapping" /\ ~is_nan(input)) =>
        InOrder(NextInputs[src_ty, ptr_width][input])

\* C29, amended: the same, with the non-finite inputs of f64 -> f32 set
\* aside, which that rule passes through as Ok.
C29_MonotoneOnFinite ==
    (pc = "converted" /\ scheme # "Wrapping" /\ ~is_nan(input)) =>
        IF src_ty = "f64" /\ dst_ty = "f32"
        THEN is_finite(input) =>
                InOrder({y \in NextInputs[src_ty, ptr_width][input] : is_finite(y)})
        ELSE InOrder(NextInputs[src_ty, ptr_width][input])

\* f64 -> f32: the f64 next above f32::MAX is a positive overflow, and the
\* next input above it, +infinity, is accepted
C29_Witness ==
    /\ pc = "converted" /\ op = "approx_from" /\ src_ty = "f64" /\ dst_ty = "f32"
    /\ input = StepAway(F32_MAX, "f64")
    /\ conv = Err("RangeError", "PosOverflow", input)
    /\ PosInf \in NextInputs["f64", ptr_width][input]
    /\ approx_from_f64_f32(PosInf, ptr_width) = Ok("RangeError", PosInf)
    /\ InOrder({y \in NextInputs[src_ty, ptr_width][input] : is_finite(y)})

(***************************************************************************)
(* C30: widening is path-independent and commutes with payload stripping.  *)
(***************************************************************************)
\* the error types a result of type `from` can pass through on its way to
\* `to`
Intermediates(from, to) ==
    {m \in {"RangeError", "RangeErrorKind", "FloatError", "GeneralError"} :
        <<from, m>> \in FromImpls /\ <<m, to>> \in FromImpls}

\* C30: converting a result's error directly into a broader type gives the
\* same result as converting it through any intermediate type, whether the
\* target carries the payload (RangeError, FloatError, GeneralError) or is a
\* payload-free kind (GeneralErrorKind, RangeErrorKind): the kind is the same
\* before and after any widening.
C30_WideningPathIndependent ==
    /\ pc = "widened" =>
            \A m \in Intermediates(Received.ety, wide.ety) :
                map_err_into(wide.ety, map_err_into(m, Received)) = wide
    /\ pc = "mapped" =>
            /\ res = into_RangeErrorKind(conv)
            /\ \A m \in Intermediates(conv.ety, "RangeErrorKind") :
                    map_err_into("RangeErrorKind", map_err_into(m, conv)) = res

\* NegOverflow(-1i8) from i8 -> u16 widened into GeneralError directly, and
\* through RangeError and FloatError
C30_Witness ==
    /\ pc = "widened" /\ src_ty = "i8" /\ dst_ty = "u16"
    /\ Received = Err("NegOverflow", "NegOverflow", Neg(NatBits(1)))
    /\ wide = Err("GeneralError", "NegOverflow", Neg(NatBits(1)))
    /\ Intermediates("NegOverflow", "GeneralError") = {"RangeError", "FloatError"}
    /\ into_GeneralError(into_FloatError(into_RangeError(Received))) = wide

====
